---- MODULE Spec2Model ----
(***************************************************************************)
(* Results addressing and hyperparameter store of the concept-bottleneck   *)
(* experiment harness (src/src/common/path_utils.py, src/evaluation.py).   *)
(*                                                                         *)
(* Paths are pathlib.Path values, modelled as sequences of components;     *)
(* file names are built as the f-strings of the source build them.         *)
(* YAML files hold text; yaml.dump and yaml.safe_load convert between a     *)
(* mapping and its text.                                                   *)
(***************************************************************************)
EXTENDS Integers, Sequences, FiniteSets, TLC

VARIABLES
    dataset,   \* which family of functions the run calls: "shapes" or "cub"
    files,     \* YAML files on disk: path -> text, the domain is what exists
    dirs,      \* folders on disk
    call,      \* arguments of the last call
    result,    \* outcome of the last call
    log,       \* completed save_hyperparameters_* calls, oldest first
    cfg,       \* key fields of the configuration a run of saves works on
    pc,        \* position of each saving process inside save_hyperparameters_*
    loc,       \* locals of each saving process
    weights,   \* binary files on disk (model weights, pickled histories): path -> content
    before     \* the YAML files as they were when the run started

vars == <<dataset, files, dirs, call, result, log, cfg, pc, loc, weights, before>>

----------------------------------------------------------------------------
(* Bounds of the model *)

\* subset ids are 1..MaxSubset (and None where the code accepts it)
MaxSubset == 1
\* number of save_hyperparameters_* calls in one behaviour of SpecSave
MaxSaves == 2
\* bootstrap counts are 1..MaxBootstrap
MaxBootstrap == 2

----------------------------------------------------------------------------
(* Python values *)

\* Python's None where an int is expected; no class, attribute or subset
\* count is negative
None == -1

\* str(v) as an f-string field formats it
PyStr(v) == IF v = None THEN "None" ELSE ToString(v)

EmptyMap == [k \in {} |-> 0]

\* d[key] = value on a dict: adds the key or replaces its value
DictSet(d, key, value) ==
    [k \in DOMAIN d \cup {key} |-> IF k = key THEN value ELSE d[k]]

----------------------------------------------------------------------------
(* src/constants.py *)

RESULTS_FOLDER == "results"
HYPERPARAMETERS_FOLDER == "hyperparameters"
SAVED_MODELS_FOLDER == "saved_models"
SHAPES_FOLDER == "shapes"
CUB_FOLDER == "cub"
FAST_HYPERPARAMETERS_FILENAME_SHAPES == "fast.yaml"
FAST_HYPERPARAMETERS_FILENAME_SHAPES_HARD == "fast_hard.yaml"
DEFAULT_HYPERPARAMETERS_FILENAME_SHAPES == "default.yaml"
DEFAULT_HYPERPARAMETERS_FILENAME_SHAPES_HARD == "default_hard.yaml"
MODEL_STRINGS_ALL_SHAPES == {"cnn", "cbm", "scm"}
HISTORY_FOLDER == "history"
ORACLE_FOLDER == "oracle"
PLOTS_FOLDER == "plots"
DATA_FOLDER == "data"
ATTRIBUTE_MAPPING_PATH_CUB == "attribute_mapping.txt"
ATTRIBUTE_NAMES_PATH_CUB == "attribute_names_cub.txt"
ATTRIBUTE_NAMES_PATH_SHAPES == "attribute_names_shapes.txt"
MODEL_STRINGS_ALL_CUB == {"cnn", "cbm", "scm"}

----------------------------------------------------------------------------
(* Paths *)

\* make_file_path: folder / filename.  Creating the folder is the caller's
\* step MakeDirs below; the file names of this module hold no separator.
make_file_path(folder, filename) == Append(folder, filename)

\* os.makedirs(folder, exist_ok=True): the folder and all its ancestors
MakeDirs(ds, folder) == ds \cup {SubSeq(folder, 1, i) : i \in 1..Len(folder)}

get_shapes_folder_name(n_classes, n_attr, signal_strength) ==
    "c" \o PyStr(n_classes) \o "_a" \o PyStr(n_attr) \o "_s" \o PyStr(signal_strength)

get_dataset_folder(dataset_name) ==
    CASE dataset_name = "shapes" -> SHAPES_FOLDER
      [] dataset_name = "cub" -> CUB_FOLDER

get_full_shapes_folder_path(n_classes, n_attr, signal_strength, relative_folder) ==
    << RESULTS_FOLDER, relative_folder, get_dataset_folder("shapes"),
       get_shapes_folder_name(n_classes, n_attr, signal_strength) >>

get_cub_folder_path(relative_folder) ==
    << RESULTS_FOLDER, relative_folder, get_dataset_folder("cub") >>

\* a sub_string that names the full dataset as subset 1
sub_string_cub_full_as_first(n_subset) ==
    IF n_subset # None THEN "_sub" \o PyStr(n_subset) ELSE "_sub1"

\* "_sub{n_subset}" or "_full" of the CUB functions
sub_string_cub(n_subset) ==
    IF n_subset # None THEN "_sub" \o PyStr(n_subset) ELSE "_full"

\* "" or "_hard"
bottleneck_string(hard_bottleneck) == IF ~hard_bottleneck THEN "" ELSE "_hard"

----------------------------------------------------------------------------
(* YAML *)

\* alphabetical order of the mapping keys, the order yaml.dump writes them in
KeyOrder == << "cbm", "cnn", "scm" >>

\* a Python object read from a YAML file: None, or a dict
PyNone == [null |-> TRUE, map |-> EmptyMap]
PyDict(m) == [null |-> FALSE, map |-> m]

\* a file of zero bytes, as open(path, "w") leaves it before anything is written
EmptyText == [flow |-> FALSE, lines |-> << >>]

KeysIn(m) == SelectSeq(KeyOrder, LAMBDA k : k \in DOMAIN m)

\* yaml.dump(m, default_flow_style=False): "{}" for an empty dict, else one
\* block entry per key, keys sorted
yaml_dump(m) ==
    IF DOMAIN m = {}
    THEN [flow |-> TRUE, lines |-> << >>]
    ELSE [flow |-> FALSE,
          lines |-> [i \in 1..Len(KeysIn(m)) |->
                        [key |-> KeysIn(m)[i], val |-> m[KeysIn(m)[i]]]]]

\* yaml.safe_load(text): None for an empty document, else the mapping
yaml_safe_load(text) ==
    IF ~text.flow /\ text.lines = << >>
    THEN PyNone
    ELSE PyDict([k \in {text.lines[i].key : i \in 1..Len(text.lines)} |->
                    (CHOOSE l \in {text.lines[i] : i \in 1..Len(text.lines)} :
                        l.key = k).val])

----------------------------------------------------------------------------
(* Outcome of a call *)

Returned(value, warnings, opened) ==
    [status |-> "ok", value |-> value, warnings |-> warnings, opened |-> opened]

Raised(error, warnings, opened) ==
    [status |-> error, value |-> PyNone, warnings |-> warnings, opened |-> opened]

NoResult == [status |-> "none", value |-> PyNone, warnings |-> << >>, opened |-> {}]

\* with open(path, "r") as infile: return yaml.safe_load(infile)
ReadYaml(fs, path, warnings) ==
    IF path \in DOMAIN fs
    THEN Returned(yaml_safe_load(fs[path]), warnings, {path})
    ELSE Raised("FileNotFoundError", warnings, {})

\* the soft file read for a hard request: every model's "hard" set to True;
\* iterating the None of an empty file raises TypeError
ReadSoftAsHard(fs, alt_file_path, warnings) ==
    LET hyperparameters == yaml_safe_load(fs[alt_file_path]) IN
    IF hyperparameters.null
    THEN Raised("TypeError", warnings, {alt_file_path})
    ELSE Returned(PyDict([key \in DOMAIN hyperparameters.map |->
                             DictSet(hyperparameters.map[key], "hard", TRUE)]),
                  warnings, {alt_file_path})

----------------------------------------------------------------------------
(* Hyperparameter files *)

\* a file name that leaves the hardness suffix out
hyperparameters_filename_shapes_drops_hard(n_subset, hard_bottleneck) ==
    "hyperparameters_sub" \o PyStr(n_subset) \o ".yaml"

hyperparameters_filename_shapes(n_subset, hard_bottleneck) ==
    "hyperparameters_sub" \o PyStr(n_subset) \o bottleneck_string(hard_bottleneck) \o ".yaml"

hyperparameters_path_shapes(n_classes, n_attr, signal_strength, n_subset, hard_bottleneck) ==
    make_file_path(
        get_full_shapes_folder_path(n_classes, n_attr, signal_strength, HYPERPARAMETERS_FOLDER),
        hyperparameters_filename_shapes(n_subset, hard_bottleneck))

hyperparameters_filename_cub(n_subset, hard_bottleneck) ==
    "hyperparameters" \o sub_string_cub(n_subset) \o bottleneck_string(hard_bottleneck) \o ".yaml"

hyperparameters_path_cub(n_subset, hard_bottleneck) ==
    make_file_path(get_cub_folder_path(HYPERPARAMETERS_FOLDER),
                   hyperparameters_filename_cub(n_subset, hard_bottleneck))

\* the soft fast file for both hardnesses
fast_file_ignores_hardness(hard_bottleneck) == FAST_HYPERPARAMETERS_FILENAME_SHAPES

fast_file(hard_bottleneck) ==
    IF hard_bottleneck THEN FAST_HYPERPARAMETERS_FILENAME_SHAPES_HARD
    ELSE FAST_HYPERPARAMETERS_FILENAME_SHAPES

\* the soft default file for both hardnesses
default_file_ignores_hardness(hard_bottleneck) == DEFAULT_HYPERPARAMETERS_FILENAME_SHAPES

default_file(hard_bottleneck) ==
    IF hard_bottleneck THEN DEFAULT_HYPERPARAMETERS_FILENAME_SHAPES_HARD
    ELSE DEFAULT_HYPERPARAMETERS_FILENAME_SHAPES

\* results/hyperparameters/shapes, the folder of the fast and default files
base_folder_shapes == << RESULTS_FOLDER, HYPERPARAMETERS_FOLDER, SHAPES_FOLDER >>

\* a guard that forgets that fast mode needs no key
missing_configuration_ignores_fast(n_classes, n_attr, n_subset, fast, default) ==
    ~default /\ (n_classes = None \/ n_attr = None \/ n_subset = None)

\* the guard of the ValueError of load_hyperparameters_shapes
missing_configuration(n_classes, n_attr, n_subset, fast, default) ==
    (~default /\ ~fast) /\ (n_classes = None \/ n_attr = None \/ n_subset = None)

load_hyperparameters_shapes(fs, n_classes, n_attr, signal_strength, n_subset, hard_bottleneck, fast, default) ==
    IF missing_configuration(n_classes, n_attr, n_subset, fast, default)
    THEN Raised("ValueError", << >>, {})
    ELSE IF fast
    THEN ReadYaml(fs, make_file_path(base_folder_shapes, fast_file(hard_bottleneck)), << >>)
    ELSE
    LET file_path == hyperparameters_path_shapes(n_classes, n_attr, signal_strength,
                                                 n_subset, hard_bottleneck)
        alt_file_path == hyperparameters_path_shapes(n_classes, n_attr, signal_strength,
                                                     n_subset, FALSE)
        default_path == make_file_path(base_folder_shapes, default_file(hard_bottleneck))
    IN  IF ~default /\ file_path \notin DOMAIN fs
        THEN IF hard_bottleneck /\ alt_file_path \in DOMAIN fs
             THEN ReadSoftAsHard(fs, alt_file_path, << "soft" >>)
             ELSE ReadYaml(fs, default_path, << "default" >>)
        ELSE IF default
        THEN ReadYaml(fs, default_path, << >>)
        ELSE ReadYaml(fs, file_path, << >>)

load_hyperparameters_cub(fs, n_subset, hard_bottleneck, fast, default) ==
    LET folder_name == get_cub_folder_path(HYPERPARAMETERS_FOLDER) IN
    IF fast
    THEN ReadYaml(fs, make_file_path(folder_name, fast_file(hard_bottleneck)), << >>)
    ELSE
    LET file_path == hyperparameters_path_cub(n_subset, hard_bottleneck)
        alt_file_path == hyperparameters_path_cub(n_subset, FALSE)
        default_path == make_file_path(folder_name, default_file(hard_bottleneck))
    IN  IF ~default /\ file_path \notin DOMAIN fs
        THEN IF hard_bottleneck /\ alt_file_path \in DOMAIN fs
             THEN ReadSoftAsHard(fs, alt_file_path, << "soft" >>)
             ELSE ReadYaml(fs, default_path, << "default" >>)
        ELSE IF default
        THEN ReadYaml(fs, default_path, << >>)
        ELSE ReadYaml(fs, file_path, << >>)

----------------------------------------------------------------------------
(* Saving hyperparameters *)

\* open(path, "w") followed by a complete write of text
WriteFile(fs, path, text) ==
    [q \in DOMAIN fs \cup {path} |-> IF q = path THEN text ELSE fs[q]]

SaveOutcome(status, fs, ds) == [status |-> status, files |-> fs, dirs |-> ds]

\* a save that writes the saved model alone, whatever the file held
overwrite_whole_file(fs, ds, folder_name, file_path, model_type, hyperparameters_dict) ==
    SaveOutcome("ok", WriteFile(fs, file_path,
                                yaml_dump(DictSet(EmptyMap, model_type, hyperparameters_dict))),
                MakeDirs(ds, folder_name))

\* the body both save functions share: a new file holding the one model, or
\* the file read, the model's entry replaced and the file written again
read_modify_write(fs, ds, folder_name, file_path, model_type, hyperparameters_dict) ==
    IF file_path \notin DOMAIN fs
    THEN SaveOutcome("ok",
                     WriteFile(fs, file_path,
                               yaml_dump(DictSet(EmptyMap, model_type, hyperparameters_dict))),
                     MakeDirs(ds, folder_name))
    ELSE LET loaded == yaml_safe_load(fs[file_path])
             hyperparameters_full == IF loaded.null THEN EmptyMap ELSE loaded.map
         IN  SaveOutcome("ok",
                         WriteFile(fs, file_path,
                                   yaml_dump(DictSet(hyperparameters_full, model_type,
                                                     hyperparameters_dict))),
                         ds)

\* a save that skips the registry test
save_hyperparameters_shapes_unchecked(fs, ds, n_classes, n_attr, signal_strength, n_subset, hyperparameters_dict, model_type, hard_bottleneck) ==
    read_modify_write(
        fs, ds,
        get_full_shapes_folder_path(n_classes, n_attr, signal_strength,
                                    HYPERPARAMETERS_FOLDER),
        hyperparameters_path_shapes(n_classes, n_attr, signal_strength, n_subset,
                                    hard_bottleneck),
        model_type, hyperparameters_dict)

save_hyperparameters_shapes(fs, ds, n_classes, n_attr, signal_strength, n_subset, hyperparameters_dict, model_type, hard_bottleneck) ==
    IF model_type \notin MODEL_STRINGS_ALL_SHAPES
    THEN SaveOutcome("ValueError", fs, ds)
    ELSE read_modify_write(
             fs, ds,
             get_full_shapes_folder_path(n_classes, n_attr, signal_strength,
                                         HYPERPARAMETERS_FOLDER),
             hyperparameters_path_shapes(n_classes, n_attr, signal_strength, n_subset,
                                         hard_bottleneck),
             model_type, hyperparameters_dict)

save_hyperparameters_cub(fs, ds, n_subset, hyperparameters_dict, model_type, hard_bottleneck) ==
    IF model_type \notin MODEL_STRINGS_ALL_CUB
    THEN SaveOutcome("ValueError", fs, ds)
    ELSE read_modify_write(
             fs, ds,
             get_cub_folder_path(HYPERPARAMETERS_FOLDER),
             hyperparameters_path_cub(n_subset, hard_bottleneck),
             model_type, hyperparameters_dict)

----------------------------------------------------------------------------
(* Model weights *)

\* text.strip().lower(); the names this module passes in are lower-case and
\* unpadded, but for "CNN " and " CUB"
strip_lower(model_type) ==
    CASE model_type = "CNN " -> "cnn"
      [] model_type = " CUB" -> "cub"
      [] OTHER -> model_type

adversarial_string(adversarial) == IF adversarial THEN "_adversarial" ELSE ""

\* a file name without the adversarial suffix
save_model_filename_shapes_drops_adversarial(model_type, n_subset, metric, hard_bottleneck, adversarial) ==
    model_type \o "_sub" \o PyStr(n_subset) \o "_" \o metric
    \o (IF model_type = "cnn" \/ ~hard_bottleneck THEN "" ELSE "_hard") \o ".pth"

\* the file name save_model_shapes writes: no "_hard" for "cnn"
save_model_filename_shapes(model_type, n_subset, metric, hard_bottleneck, adversarial) ==
    model_type \o "_sub" \o PyStr(n_subset) \o "_" \o metric
    \o (IF model_type = "cnn" \/ ~hard_bottleneck THEN "" ELSE "_hard")
    \o adversarial_string(adversarial) \o ".pth"

\* the file name load_model_shapes reads
load_model_filename_shapes(model_type, n_subset, metric, hard_bottleneck, adversarial) ==
    model_type \o "_sub" \o PyStr(n_subset) \o "_" \o metric
    \o bottleneck_string(hard_bottleneck)
    \o adversarial_string(adversarial) \o ".pth"

\* the file name save_model_cub writes: no "_hard" for "cnn"
save_model_filename_cub(model_type, n_subset, metric, hard_bottleneck, adversarial) ==
    model_type \o sub_string_cub(n_subset) \o "_" \o metric
    \o (IF model_type = "cnn" \/ ~hard_bottleneck THEN "" ELSE "_hard")
    \o adversarial_string(adversarial) \o ".pth"

\* the file name load_model_cub reads
load_model_filename_cub(model_type, n_subset, metric, hard_bottleneck, adversarial) ==
    model_type \o sub_string_cub(n_subset) \o "_" \o metric
    \o bottleneck_string(hard_bottleneck)
    \o adversarial_string(adversarial) \o ".pth"

\* torch.load(file_path)
TorchLoad(ws, file_path) ==
    IF file_path \in DOMAIN ws
    THEN [status |-> "ok", value |-> ws[file_path], warnings |-> << >>,
          opened |-> {file_path}]
    ELSE [status |-> "FileNotFoundError", value |-> "", warnings |-> << >>, opened |-> {}]

ModelOutcome(status, ws, ds) == [status |-> status, weights |-> ws, dirs |-> ds]

save_model_shapes(ws, ds, n_classes, n_attr, signal_strength, n_subset, state_dict, model_type, metric, hard_bottleneck, adversarial) ==
    IF strip_lower(model_type) \notin MODEL_STRINGS_ALL_SHAPES
    THEN ModelOutcome("ValueError", ws, ds)
    ELSE LET folder_name == get_full_shapes_folder_path(n_classes, n_attr, signal_strength,
                                                        SAVED_MODELS_FOLDER)
             file_path == make_file_path(
                              folder_name,
                              save_model_filename_shapes(strip_lower(model_type), n_subset,
                                                         metric, hard_bottleneck, adversarial))
         IN  ModelOutcome("ok", WriteFile(ws, file_path, state_dict), MakeDirs(ds, folder_name))

load_model_shapes(ws, n_classes, n_attr, signal_strength, n_subset, model_type, metric, hard_bottleneck, adversarial) ==
    IF strip_lower(model_type) \notin MODEL_STRINGS_ALL_SHAPES
    THEN [status |-> "ValueError", value |-> "", warnings |-> << >>, opened |-> {}]
    ELSE TorchLoad(ws, make_file_path(
                           get_full_shapes_folder_path(n_classes, n_attr, signal_strength,
                                                       SAVED_MODELS_FOLDER),
                           load_model_filename_shapes(strip_lower(model_type), n_subset,
                                                      metric, hard_bottleneck, adversarial)))

save_model_cub(ws, ds, n_subset, state_dict, model_type, metric, hard_bottleneck, adversarial) ==
    IF strip_lower(model_type) \notin MODEL_STRINGS_ALL_CUB
    THEN ModelOutcome("ValueError", ws, ds)
    ELSE LET folder_name == get_cub_folder_path(SAVED_MODELS_FOLDER)
             file_path == make_file_path(
                              folder_name,
                              save_model_filename_cub(strip_lower(model_type), n_subset,
                                                      metric, hard_bottleneck, adversarial))
         IN  ModelOutcome("ok", WriteFile(ws, file_path, state_dict), MakeDirs(ds, folder_name))

load_model_cub(ws, n_subset, model_type, metric, hard_bottleneck, adversarial) ==
    IF strip_lower(model_type) \notin MODEL_STRINGS_ALL_CUB
    THEN [status |-> "ValueError", value |-> "", warnings |-> << >>, opened |-> {}]
    ELSE TorchLoad(ws, make_file_path(
                           get_cub_folder_path(SAVED_MODELS_FOLDER),
                           load_model_filename_cub(strip_lower(model_type), n_subset,
                                                   metric, hard_bottleneck, adversarial)))

----------------------------------------------------------------------------
(* Inputs *)

Datasets == {"shapes", "cub"}
ClassCounts == {10}
AttrCounts == {5}
SignalStrengths == {98}

\* subset ids that name a subset; CUB also takes None, the full dataset
SubsetIds(ds) == IF ds = "cub" THEN (1..MaxSubset) \cup {None} ELSE 1..MaxSubset

ModelStrings(ds) == IF ds = "cub" THEN MODEL_STRINGS_ALL_CUB ELSE MODEL_STRINGS_ALL_SHAPES

\* hyperparameter dicts of one model, with and without a "hard" entry
HyperparameterDicts ==
    { [learning_rate |-> 1],
      [hard |-> FALSE, learning_rate |-> 1],
      [hard |-> TRUE, learning_rate |-> 2] }

NoCall ==
    [op |-> "none", n_classes |-> None, n_attr |-> None, signal_strength |-> None,
     n_subset |-> None, hard_bottleneck |-> FALSE, fast |-> FALSE, default |-> FALSE,
     model_type |-> "", hyperparameters_dict |-> EmptyMap,
     metric |-> "", adversarial |-> FALSE, state_dict |-> "",
     n_bootstrap |-> None, oracle_only |-> FALSE, history |-> "",
     folder |-> << >>, filename |-> << >>, check_folder_exists |-> FALSE,
     dataset_name |-> "", end_name |-> "", attr |-> FALSE]

\* The layout on disk, as the files are named there.
\* The file of key (n_subset, hard_bottleneck) of dataset ds; Shapes files are
\* those of 10 classes, 5 attributes, signal strength 98.
KeyFolder(ds) ==
    IF ds = "cub"
    THEN << "results", "hyperparameters", "cub" >>
    ELSE << "results", "hyperparameters", "shapes", "c10_a5_s98" >>

KeyFile(ds, n_subset, hard_bottleneck) ==
    (IF ds = "cub"
     THEN "hyperparameters" \o (IF n_subset = None THEN "_full" ELSE "_sub" \o ToString(n_subset))
     ELSE "hyperparameters_sub" \o ToString(n_subset))
    \o (IF hard_bottleneck THEN "_hard" ELSE "") \o ".yaml"

KeyPath(ds, n_subset, hard_bottleneck) ==
    Append(KeyFolder(ds), KeyFile(ds, n_subset, hard_bottleneck))

FixedFolder(ds) ==
    IF ds = "cub"
    THEN << "results", "hyperparameters", "cub" >>
    ELSE << "results", "hyperparameters", "shapes" >>

FastPath(ds, hard_bottleneck) ==
    Append(FixedFolder(ds), IF hard_bottleneck
                            THEN FAST_HYPERPARAMETERS_FILENAME_SHAPES_HARD
                            ELSE FAST_HYPERPARAMETERS_FILENAME_SHAPES)

DefaultPath(ds, hard_bottleneck) ==
    Append(FixedFolder(ds), IF hard_bottleneck
                            THEN DEFAULT_HYPERPARAMETERS_FILENAME_SHAPES_HARD
                            ELSE DEFAULT_HYPERPARAMETERS_FILENAME_SHAPES)

\* the fast and default files of ds, then its key files: soft and hard of each
\* subset id, None last
SubsetAt(i) == IF i <= MaxSubset THEN i ELSE None

PathSeq(ds) ==
    << FastPath(ds, FALSE), FastPath(ds, TRUE), DefaultPath(ds, FALSE), DefaultPath(ds, TRUE) >>
    \o [j \in 1..(2 * Cardinality(SubsetIds(ds))) |->
           KeyPath(ds, SubsetAt((j + 1) \div 2), j % 2 = 0)]

\* a file content that names the file it is in: three models, one without a
\* "hard" entry, one with hard false, one with hard true
CanonMap(tag) ==
    [m \in {"cnn", "cbm", "scm"} |->
        CASE m = "cnn" -> [learning_rate |-> tag]
          [] m = "cbm" -> [hard |-> FALSE, learning_rate |-> tag]
          [] m = "scm" -> [hard |-> TRUE, learning_rate |-> tag]]

\* the file systems a run can start from: every fast and default file is there
\* or missing; the two key files of one subset id are missing, empty or hold a
\* mapping, those of the other subset ids hold a mapping
FileChoices(ds) ==
    { c \in [1..Len(PathSeq(ds)) -> {"missing", "empty", "doc"}] :
        /\ \A i \in 1..4 : c[i] # "empty"
        /\ \E f \in 1..Cardinality(SubsetIds(ds)) :
              \A j \in 1..(2 * Cardinality(SubsetIds(ds))) :
                  (j + 1) \div 2 # f => c[4 + j] = "doc" }

FileSystem(ds, c) ==
    [p \in {PathSeq(ds)[i] : i \in {j \in 1..Len(PathSeq(ds)) : c[j] # "missing"}} |->
        LET i == CHOOSE j \in 1..Len(PathSeq(ds)) : PathSeq(ds)[j] = p IN
        IF c[i] = "empty" THEN EmptyText ELSE yaml_dump(CanonMap(i))]

FoldersOf(fs) ==
    UNION { MakeDirs({}, SubSeq(p, 1, Len(p) - 1)) : p \in DOMAIN fs }

----------------------------------------------------------------------------
(* SpecLoad: hyperparameter resolution over the file systems above *)

InitLoad ==
    /\ dataset \in Datasets
    /\ \E c \in FileChoices(dataset) : files = FileSystem(dataset, c)
    /\ dirs = FoldersOf(files)
    /\ call = NoCall
    /\ result = NoResult
    /\ log = << >>
    /\ cfg = None
    /\ pc = << >>
    /\ loc = << >>
    /\ weights = << >>
    /\ before = files

LoadShapes ==
    /\ dataset = "shapes"
    /\ \E n_classes \in ClassCounts \cup {None}, n_attr \in AttrCounts \cup {None},
          n_subset \in (1..MaxSubset) \cup {None},
          hard_bottleneck \in BOOLEAN, fast \in BOOLEAN, default \in BOOLEAN :
          /\ call' = [NoCall EXCEPT !.op = "load", !.n_classes = n_classes,
                         !.n_attr = n_attr, !.signal_strength = 98,
                         !.n_subset = n_subset, !.hard_bottleneck = hard_bottleneck,
                         !.fast = fast, !.default = default]
          /\ result' = load_hyperparameters_shapes(files, n_classes, n_attr, 98, n_subset,
                                                   hard_bottleneck, fast, default)
    /\ UNCHANGED << dataset, files, dirs, log, cfg, pc, loc, weights, before >>

LoadCub ==
    /\ dataset = "cub"
    /\ \E n_subset \in (1..MaxSubset) \cup {None},
          hard_bottleneck \in BOOLEAN, fast \in BOOLEAN, default \in BOOLEAN :
          /\ call' = [NoCall EXCEPT !.op = "load", !.n_subset = n_subset,
                         !.hard_bottleneck = hard_bottleneck,
                         !.fast = fast, !.default = default]
          /\ result' = load_hyperparameters_cub(files, n_subset, hard_bottleneck, fast, default)
    /\ UNCHANGED << dataset, files, dirs, log, cfg, pc, loc, weights, before >>

NextLoad == LoadShapes \/ LoadCub

SpecLoad == InitLoad /\ [][NextLoad]_vars

----------------------------------------------------------------------------
(* Claims on hyperparameter resolution, checked under SpecLoad *)

IsLoad == call.op = "load"

\* every field the key of the call is made of is set
KeySet ==
    dataset = "cub"
    \/ (call.n_classes # None /\ call.n_attr # None /\ call.n_subset # None)

\* the exact-match file and the soft file of the call's key
ExactFile == KeyPath(dataset, call.n_subset, call.hard_bottleneck)
SoftFile == KeyPath(dataset, call.n_subset, FALSE)

ContentOf(path) == yaml_safe_load(files[path])

\* value is soft with the "hard" entry of every model True and nothing else changed
SameButHard(soft, value) ==
    IF soft.null THEN value.null
    ELSE /\ ~value.null
         /\ DOMAIN value.map = DOMAIN soft.map
         /\ \A m \in DOMAIN soft.map :
               /\ DOMAIN value.map[m] = DOMAIN soft.map[m] \cup {"hard"}
               /\ value.map[m]["hard"] = TRUE
               /\ \A k \in DOMAIN soft.map[m] \ {"hard"} : value.map[m][k] = soft.map[m][k]

SoftFallbackCase ==
    /\ IsLoad /\ ~call.fast /\ ~call.default /\ call.hard_bottleneck /\ KeySet
    /\ ExactFile \notin DOMAIN files
    /\ SoftFile \in DOMAIN files

\* C1: with fast=False, default=False, hard_bottleneck=True, no exact hard file
\* and an existing soft file of the same key, the call returns the soft file's
\* content with every model's "hard" set to True and warns instead of failing.
C1_SoftFallback ==
    SoftFallbackCase =>
        /\ result.status = "ok"
        /\ result.warnings # << >>
        /\ SameButHard(ContentOf(SoftFile), result.value)

DefaultFallbackCase ==
    /\ IsLoad /\ ~call.fast
    /\ ExactFile \notin DOMAIN files
    /\ call.hard_bottleneck => SoftFile \notin DOMAIN files

\* the default file of the requested hardness is returned with a warning, and
\* the call fails only if that file is missing
DefaultReturnedWithWarning ==
    IF DefaultPath(dataset, call.hard_bottleneck) \in DOMAIN files
    THEN /\ result.status = "ok"
         /\ result.value = ContentOf(DefaultPath(dataset, call.hard_bottleneck))
         /\ result.warnings # << >>
    ELSE result.status = "FileNotFoundError"

\* C2 as stated: with fast=False and neither the exact file nor (for a hard
\* request) the soft file, the default file of the requested hardness is
\* returned with a warning, failing only if the default file is missing.
C2_DefaultFallbackAsStated == (DefaultFallbackCase /\ KeySet) => DefaultReturnedWithWarning

\* C2, amended: the same for default=False and a key whose fields are all set;
\* with default=True the default file is returned without a warning.
C2_DefaultFallback ==
    /\ (DefaultFallbackCase /\ ~call.default /\ KeySet) => DefaultReturnedWithWarning
    /\ (IsLoad /\ ~call.fast /\ call.default
        /\ DefaultPath(dataset, call.hard_bottleneck) \in DOMAIN files) =>
            /\ result.status = "ok"
            /\ result.value = ContentOf(DefaultPath(dataset, call.hard_bottleneck))
            /\ result.warnings = << >>

C2_Witness ==
    /\ DefaultFallbackCase /\ ~call.default /\ KeySet /\ call.hard_bottleneck
    /\ result.status = "ok"
    /\ result.warnings = << "default" >>
    /\ DefaultPath(dataset, FALSE) \in DOMAIN files
    /\ result.value # ContentOf(DefaultPath(dataset, FALSE))

ExactReturned ==
    /\ result.status = "ok"
    /\ result.value = ContentOf(ExactFile)
    /\ result.warnings = << >>
    /\ result.opened = {ExactFile}

\* C3 as stated: with fast=False and any value of default, an existing
\* exact-match file is what the call returns, with no warning and nothing
\* taken from the soft or default file.
C3_ExactWinsAsStated ==
    (IsLoad /\ ~call.fast /\ KeySet /\ ExactFile \in DOMAIN files) => ExactReturned

\* C3, amended: the same for default=False; default=True returns the default
\* file whatever exact-match file exists.
C3_ExactWins ==
    (IsLoad /\ ~call.fast /\ ~call.default /\ KeySet /\ ExactFile \in DOMAIN files)
        => ExactReturned

C3_Witness ==
    /\ IsLoad /\ ~call.fast /\ ~call.default /\ KeySet /\ call.hard_bottleneck
    /\ ExactFile \in DOMAIN files /\ SoftFile \in DOMAIN files
    /\ DefaultPath(dataset, TRUE) \in DOMAIN files
    /\ result.status = "ok" /\ ~result.value.null
    /\ result.value # ContentOf(SoftFile)

\* C4: with fast=True the result is the content of the fast file of the
\* requested hardness, whatever the other arguments are (unset ones included)
\* and whatever exact, soft or default files exist; no other file is read.
C4_FastMode ==
    (IsLoad /\ call.fast) =>
        /\ result.opened \subseteq {FastPath(dataset, call.hard_bottleneck)}
        /\ result.warnings = << >>
        /\ IF FastPath(dataset, call.hard_bottleneck) \in DOMAIN files
           THEN /\ result.status = "ok"
                /\ result.value = ContentOf(FastPath(dataset, call.hard_bottleneck))
           ELSE result.status = "FileNotFoundError"

C4_Witness ==
    /\ IsLoad /\ call.fast /\ call.hard_bottleneck /\ ~call.default
    /\ call.n_subset = None
    /\ result.status = "ok" /\ ~result.value.null
    /\ FastPath(dataset, FALSE) \in DOMAIN files
    /\ result.value # ContentOf(FastPath(dataset, FALSE))
    /\ \E n \in SubsetIds(dataset) : KeyPath(dataset, n, TRUE) \in DOMAIN files

AnyUnset ==
    IF dataset = "cub" THEN call.n_subset = None
    ELSE call.n_classes = None \/ call.n_attr = None \/ call.n_subset = None

----------------------------------------------------------------------------
(* SpecSave: a run of save_hyperparameters_* calls on the two files, soft   *)
(* and hard, of one subset id                                              *)

SaveChoices == [BOOLEAN -> {"missing", "empty", "doc"}]

\* the two key files of subset id n_subset, each missing, empty or holding
\* a mapping
SaveFileSystem(ds, n_subset, c) ==
    [p \in {KeyPath(ds, n_subset, h) : h \in {b \in BOOLEAN : c[b] # "missing"}} |->
        LET h == CHOOSE b \in BOOLEAN : KeyPath(ds, n_subset, b) = p IN
        IF c[h] = "empty" THEN EmptyText ELSE yaml_dump(CanonMap(IF h THEN 2 ELSE 1))]

InitSave ==
    /\ dataset \in Datasets
    /\ cfg \in SubsetIds(dataset)
    /\ \E c \in SaveChoices : files = SaveFileSystem(dataset, cfg, c)
    /\ dirs = FoldersOf(files)
    /\ call = NoCall
    /\ result = NoResult
    /\ log = << >>
    /\ pc = << >>
    /\ loc = << >>
    /\ weights = << >>
    /\ before = files

\* what a dict-typed reader finds in the file at path: nothing when the file
\* is missing or empty
MapAt(fs, path) ==
    IF path \in DOMAIN fs /\ ~yaml_safe_load(fs[path]).null
    THEN yaml_safe_load(fs[path]).map
    ELSE EmptyMap

Save ==
    /\ Len(log) < MaxSaves
    /\ \E hard_bottleneck \in BOOLEAN,
          model_type \in ModelStrings(dataset),
          hyperparameters_dict \in HyperparameterDicts :
          LET out == IF dataset = "shapes"
                     THEN save_hyperparameters_shapes(files, dirs, 10, 5, 98, cfg,
                                                      hyperparameters_dict, model_type,
                                                      hard_bottleneck)
                     ELSE save_hyperparameters_cub(files, dirs, cfg, hyperparameters_dict,
                                                   model_type, hard_bottleneck)
          IN  /\ files' = out.files
              /\ dirs' = out.dirs
              /\ call' = [NoCall EXCEPT !.op = "save", !.n_subset = cfg,
                             !.hard_bottleneck = hard_bottleneck,
                             !.model_type = model_type,
                             !.hyperparameters_dict = hyperparameters_dict]
              /\ result' = [NoResult EXCEPT !.status = out.status]
              /\ log' = IF out.status = "ok"
                        THEN Append(log, [hard_bottleneck |-> hard_bottleneck,
                                          model_type |-> model_type,
                                          hyperparameters_dict |-> hyperparameters_dict,
                                          before |-> MapAt(files, KeyPath(dataset, cfg,
                                                                         hard_bottleneck))])
                        ELSE log
    /\ UNCHANGED << dataset, cfg, pc, loc, weights, before >>

NextSave == Save

SpecSave == InitSave /\ [][NextSave]_vars

\* the exact-match load of key (cfg, hard_bottleneck)
ExactLoad(hard_bottleneck) ==
    IF dataset = "shapes"
    THEN load_hyperparameters_shapes(files, 10, 5, 98, cfg, hard_bottleneck, FALSE, FALSE)
    ELSE load_hyperparameters_cub(files, cfg, hard_bottleneck, FALSE, FALSE)

\* the last two saves went to the same key with different model types
TwoSaves ==
    /\ Len(log) >= 2
    /\ log[Len(log) - 1].hard_bottleneck = log[Len(log)].hard_bottleneck
    /\ log[Len(log) - 1].model_type # log[Len(log)].model_type

\* C6: from any file state of a key (missing, empty, holding other models),
\* after save(cfg, A, X) then save(cfg, B, Y) with A # B an exact-match load
\* returns A -> X, B -> Y and every other entry the file held before, unchanged.
C6_SaveReadModifyWrite ==
    TwoSaves =>
        LET first == log[Len(log) - 1]
            second == log[Len(log)]
            loaded == ExactLoad(second.hard_bottleneck)
        IN  /\ loaded.status = "ok"
            /\ loaded.warnings = << >>
            /\ ~loaded.value.null
            /\ DOMAIN loaded.value.map =
                   DOMAIN first.before \cup {first.model_type, second.model_type}
            /\ loaded.value.map[first.model_type] = first.hyperparameters_dict
            /\ loaded.value.map[second.model_type] = second.hyperparameters_dict
            /\ \A m \in DOMAIN first.before \ {first.model_type, second.model_type} :
                   loaded.value.map[m] = first.before[m]

C6_Witness ==
    /\ TwoSaves
    /\ DOMAIN log[Len(log) - 1].before \ {log[Len(log) - 1].model_type, log[Len(log)].model_type}
           # {}
    /\ log[Len(log) - 1].model_type \in DOMAIN log[Len(log) - 1].before
    /\ log[Len(log) - 1].before[log[Len(log) - 1].model_type]
           # log[Len(log) - 1].hyperparameters_dict
    /\ result.status = "ok"

----------------------------------------------------------------------------
(* SpecSteps: two processes inside save_hyperparameters_*, saving different  *)
(* model types to the same key, one file operation at a time; a process can *)
(* be interrupted between any two of its operations                         *)

Procs == {1, 2}

\* position of the order KeyOrder lists model types in
KeyIndex(m) == CHOOSE i \in 1..Len(KeyOrder) : KeyOrder[i] = m

StepFolder ==
    IF dataset = "shapes"
    THEN get_full_shapes_folder_path(10, 5, 98, HYPERPARAMETERS_FOLDER)
    ELSE get_cub_folder_path(HYPERPARAMETERS_FOLDER)

StepPath(p) ==
    IF dataset = "shapes"
    THEN hyperparameters_path_shapes(10, 5, 98, cfg, loc[p].hard_bottleneck)
    ELSE hyperparameters_path_cub(cfg, loc[p].hard_bottleneck)

InitSteps ==
    /\ dataset \in Datasets
    /\ cfg \in SubsetIds(dataset)
    /\ \E hard_bottleneck \in BOOLEAN, state \in {"missing", "empty", "doc"} :
          /\ files = SaveFileSystem(dataset, cfg,
                                    [b \in BOOLEAN |-> IF b = hard_bottleneck
                                                       THEN state ELSE "missing"])
          /\ \E a \in ModelStrings(dataset), b \in ModelStrings(dataset),
                x \in HyperparameterDicts, y \in HyperparameterDicts :
                /\ KeyIndex(a) < KeyIndex(b)
                /\ loc = << [hard_bottleneck |-> hard_bottleneck, model_type |-> a,
                             hyperparameters_dict |-> x, hyperparameters_full |-> EmptyMap],
                            [hard_bottleneck |-> hard_bottleneck, model_type |-> b,
                             hyperparameters_dict |-> y, hyperparameters_full |-> EmptyMap] >>
    /\ dirs = FoldersOf(files)
    /\ before = files
    /\ pc = << "start", "start" >>
    /\ call = NoCall
    /\ result = NoResult
    /\ log = << >>
    /\ weights = << >>

Goto(p, label) == pc' = [pc EXCEPT ![p] = label]

\* if not os.path.exists(file_path)
CheckExists(p) ==
    /\ pc[p] = "start"
    /\ Goto(p, IF StepPath(p) \notin DOMAIN files THEN "makedirs" ELSE "read")
    /\ UNCHANGED << dataset, files, dirs, call, result, log, cfg, loc, weights, before >>

\* os.makedirs(folder_name, exist_ok=True)
MakeFolder(p) ==
    /\ pc[p] = "makedirs"
    /\ dirs' = MakeDirs(dirs, StepFolder)
    /\ Goto(p, "open_new")
    /\ UNCHANGED << dataset, files, call, result, log, cfg, loc, weights, before >>

\* open(file_path, "w") of the branch that found no file: the file is there, empty
OpenNew(p) ==
    /\ pc[p] = "open_new"
    /\ files' = WriteFile(files, StepPath(p), EmptyText)
    /\ Goto(p, "dump_new")
    /\ UNCHANGED << dataset, dirs, call, result, log, cfg, loc, weights, before >>

\* yaml.dump({model_type: hyperparameters_dict}, outfile)
DumpNew(p) ==
    /\ pc[p] = "dump_new"
    /\ files' = WriteFile(files, StepPath(p),
                          yaml_dump(DictSet(EmptyMap, loc[p].model_type,
                                            loc[p].hyperparameters_dict)))
    /\ Goto(p, "done")
    /\ UNCHANGED << dataset, dirs, call, result, log, cfg, loc, weights, before >>

\* the file read, None replaced by {}, the entry of model_type set
ReadFile(p) ==
    /\ pc[p] = "read"
    /\ loc' = [loc EXCEPT ![p].hyperparameters_full =
                   DictSet(MapAt(files, StepPath(p)), loc[p].model_type,
                           loc[p].hyperparameters_dict)]
    /\ Goto(p, "open_w")
    /\ UNCHANGED << dataset, files, dirs, call, result, log, cfg, weights, before >>

\* open(file_path, "w") of the branch that read the file: the file is truncated
OpenWrite(p) ==
    /\ pc[p] = "open_w"
    /\ files' = WriteFile(files, StepPath(p), EmptyText)
    /\ Goto(p, "dump")
    /\ UNCHANGED << dataset, dirs, call, result, log, cfg, loc, weights, before >>

\* yaml.dump(hyperparameters_full, yaml_file)
Dump(p) ==
    /\ pc[p] = "dump"
    /\ files' = WriteFile(files, StepPath(p), yaml_dump(loc[p].hyperparameters_full))
    /\ Goto(p, "done")
    /\ UNCHANGED << dataset, dirs, call, result, log, cfg, loc, weights, before >>

\* the process is killed, or an operation of it raises, before its last step
Crash(p) ==
    /\ pc[p] \in {"makedirs", "open_new", "dump_new", "read", "open_w", "dump"}
    /\ Goto(p, "crashed")
    /\ UNCHANGED << dataset, files, dirs, call, result, log, cfg, loc, weights, before >>

NextSteps ==
    \E p \in Procs :
        \/ CheckExists(p)
        \/ MakeFolder(p)
        \/ OpenNew(p)
        \/ DumpNew(p)
        \/ ReadFile(p)
        \/ OpenWrite(p)
        \/ Dump(p)
        \/ Crash(p)

SpecSteps == InitSteps /\ [][NextSteps]_vars

\* what is at path: << >> when there is no file, else its text
FileState(fs, path) == IF path \in DOMAIN fs THEN << fs[path] >> ELSE << >>

\* the complete file a save by p alone leaves, starting from before
CompleteSave(p) ==
    yaml_dump(DictSet(MapAt(before, StepPath(p)), loc[p].model_type,
                      loc[p].hyperparameters_dict))

\* C7: a save interrupted between its first and last step leaves the file of
\* the key with its complete previous content or the complete new content,
\* never empty or truncated, never without the entries it held.
C7_SaveAtomic ==
    \A p \in Procs :
        (pc[p] = "crashed" /\ \A q \in Procs \ {p} : pc[q] = "start") =>
            \/ FileState(files, StepPath(p)) = FileState(before, StepPath(p))
            \/ FileState(files, StepPath(p)) = << CompleteSave(p) >>

\* C8: two processes saving different model types A and B to the same key
\* concurrently leave, in every interleaving of their steps, a file that holds
\* both A -> X and B -> Y.
C8_NoLostUpdate ==
    (\A p \in Procs : pc[p] = "done") =>
        \A p \in Procs :
            /\ loc[p].model_type \in DOMAIN MapAt(files, StepPath(p))
            /\ MapAt(files, StepPath(p))[loc[p].model_type] = loc[p].hyperparameters_dict

----------------------------------------------------------------------------
(* SpecModel: one configuration of model weights, saved and then loaded     *)

Metrics == {"loss", "accuracy"}
StateDicts == {"weights_a", "weights_b"}
ModelTypeInputs(ds) == ModelStrings(ds) \cup {"CNN ", "unknown"}

InitModel ==
    /\ dataset \in Datasets
    /\ \E n_subset \in SubsetIds(dataset), model_type \in ModelTypeInputs(dataset),
          metric \in Metrics, hard_bottleneck \in BOOLEAN, adversarial \in BOOLEAN,
          state_dict \in StateDicts :
          call = [NoCall EXCEPT !.n_classes = 10, !.n_attr = 5, !.signal_strength = 98,
                     !.n_subset = n_subset, !.model_type = model_type, !.metric = metric,
                     !.hard_bottleneck = hard_bottleneck, !.adversarial = adversarial,
                     !.state_dict = state_dict]
    /\ weights = << >>
    /\ dirs = {}
    /\ files = << >>
    /\ before = << >>
    /\ result = NoResult
    /\ log = << >>
    /\ cfg = None
    /\ pc = << >>
    /\ loc = << >>

\* save_model_shapes / save_model_cub with the configuration
SaveModel ==
    /\ call.op = "none"
    /\ LET out == IF dataset = "shapes"
                  THEN save_model_shapes(weights, dirs, call.n_classes, call.n_attr,
                                         call.signal_strength, call.n_subset, call.state_dict,
                                         call.model_type, call.metric, call.hard_bottleneck,
                                         call.adversarial)
                  ELSE save_model_cub(weights, dirs, call.n_subset, call.state_dict,
                                      call.model_type, call.metric, call.hard_bottleneck,
                                      call.adversarial)
       IN  /\ weights' = out.weights
           /\ dirs' = out.dirs
           /\ result' = [NoResult EXCEPT !.status = out.status]
    /\ call' = [call EXCEPT !.op = "save_model"]
    /\ UNCHANGED << dataset, files, log, cfg, pc, loc, before >>

\* load_model_shapes / load_model_cub with the same configuration
LoadModel ==
    /\ call.op = "save_model"
    /\ result' = IF dataset = "shapes"
                 THEN load_model_shapes(weights, call.n_classes, call.n_attr,
                                        call.signal_strength, call.n_subset, call.model_type,
                                        call.metric, call.hard_bottleneck, call.adversarial)
                 ELSE load_model_cub(weights, call.n_subset, call.model_type, call.metric,
                                     call.hard_bottleneck, call.adversarial)
    /\ call' = [call EXCEPT !.op = "load_model"]
    /\ UNCHANGED << dataset, files, dirs, log, cfg, pc, loc, weights, before >>

NextModel == SaveModel \/ LoadModel

SpecModel == InitModel /\ [][NextModel]_vars

\* the path the save of the call's configuration writes with hardness h, and
\* the path the load of it reads
SavePath(h) ==
    IF dataset = "shapes"
    THEN make_file_path(
             get_full_shapes_folder_path(call.n_classes, call.n_attr, call.signal_strength,
                                         SAVED_MODELS_FOLDER),
             save_model_filename_shapes(strip_lower(call.model_type), call.n_subset,
                                        call.metric, h, call.adversarial))
    ELSE make_file_path(
             get_cub_folder_path(SAVED_MODELS_FOLDER),
             save_model_filename_cub(strip_lower(call.model_type), call.n_subset,
                                     call.metric, h, call.adversarial))

LoadPath(h) ==
    IF dataset = "shapes"
    THEN make_file_path(
             get_full_shapes_folder_path(call.n_classes, call.n_attr, call.signal_strength,
                                         SAVED_MODELS_FOLDER),
             load_model_filename_shapes(strip_lower(call.model_type), call.n_subset,
                                        call.metric, h, call.adversarial))
    ELSE make_file_path(
             get_cub_folder_path(SAVED_MODELS_FOLDER),
             load_model_filename_cub(strip_lower(call.model_type), call.n_subset,
                                     call.metric, h, call.adversarial))

Registered == call.model_type \in ModelStrings(dataset)

\* C9: for save and for load, the path of model type "cnn" with
\* hard_bottleneck=True is the path with hard_bottleneck=False; for every
\* other model type the two paths differ.
C9_CnnHardnessSuffix ==
    (call.op # "none" /\ Registered) =>
        IF call.model_type = "cnn"
        THEN SavePath(TRUE) = SavePath(FALSE) /\ LoadPath(TRUE) = LoadPath(FALSE)
        ELSE SavePath(TRUE) # SavePath(FALSE) /\ LoadPath(TRUE) # LoadPath(FALSE)

\* C10: for every registered model type, subset id, metric, hardness and
\* adversarial flag, the state saved is the state the load of the same
\* configuration returns.
C10_ModelRoundTrip ==
    (call.op = "load_model" /\ Registered) =>
        (result.status = "ok" /\ result.value = call.state_dict)

----------------------------------------------------------------------------
(* Histories *)

\* folder_name of the history functions of Shapes
history_folder_shapes(n_classes, n_attr, signal_strength, oracle_only) ==
    IF oracle_only
    THEN Append(get_full_shapes_folder_path(n_classes, n_attr, signal_strength, HISTORY_FOLDER), ORACLE_FOLDER)
    ELSE get_full_shapes_folder_path(n_classes, n_attr, signal_strength, HISTORY_FOLDER)

\* folder_name of the history functions of CUB
history_folder_cub(oracle_only) ==
    IF oracle_only
    THEN Append(get_cub_folder_path(HISTORY_FOLDER), ORACLE_FOLDER)
    ELSE get_cub_folder_path(HISTORY_FOLDER)

history_filename_shapes(n_subset, n_bootstrap, hard_bottleneck) ==
    "histories_sub" \o PyStr(n_subset) \o "_b" \o PyStr(n_bootstrap)
    \o bottleneck_string(hard_bottleneck) \o ".pkl"

history_filename_cub(n_subset, n_bootstrap, hard_bottleneck) ==
    "histories" \o sub_string_cub(n_subset) \o "_b" \o PyStr(n_bootstrap)
    \o bottleneck_string(hard_bottleneck) \o ".pkl"

\* file_path of save_history_shapes
save_history_path_shapes(n_classes, n_attr, signal_strength, n_bootstrap, n_subset, oracle_only, hard_bottleneck) ==
    make_file_path(history_folder_shapes(n_classes, n_attr, signal_strength, oracle_only),
                   history_filename_shapes(n_subset, n_bootstrap, hard_bottleneck))

\* file_path of load_history_shapes: oracle_only resets hard_bottleneck
load_history_path_shapes(n_classes, n_attr, signal_strength, n_bootstrap, n_subset, hard_bottleneck, oracle_only) ==
    make_file_path(history_folder_shapes(n_classes, n_attr, signal_strength, oracle_only),
                   history_filename_shapes(n_subset, n_bootstrap,
                                           IF oracle_only THEN FALSE ELSE hard_bottleneck))

\* file_path of save_history_cub and of load_history_cub
history_path_cub(n_bootstrap, n_subset, hard_bottleneck, oracle_only) ==
    make_file_path(history_folder_cub(oracle_only),
                   history_filename_cub(n_subset, n_bootstrap, hard_bottleneck))

\* pickle.load(open(file_path, "rb"))
PickleLoad(ws, file_path) ==
    IF file_path \in DOMAIN ws
    THEN [status |-> "ok", value |-> ws[file_path], warnings |-> << >>,
          opened |-> {file_path}]
    ELSE [status |-> "FileNotFoundError", value |-> "", warnings |-> << >>, opened |-> {}]

save_history_shapes(ws, ds, n_classes, n_attr, signal_strength, n_bootstrap, n_subset, history, oracle_only, hard_bottleneck) ==
    ModelOutcome("ok",
                 WriteFile(ws, save_history_path_shapes(n_classes, n_attr, signal_strength, n_bootstrap, n_subset, oracle_only, hard_bottleneck), history),
                 MakeDirs(ds, history_folder_shapes(n_classes, n_attr, signal_strength, oracle_only)))

load_history_shapes(ws, n_classes, n_attr, signal_strength, n_bootstrap, n_subset, hard_bottleneck, oracle_only) ==
    PickleLoad(ws, load_history_path_shapes(n_classes, n_attr, signal_strength, n_bootstrap, n_subset, hard_bottleneck, oracle_only))

save_history_cub(ws, ds, n_bootstrap, n_subset, history, oracle_only, hard_bottleneck) ==
    ModelOutcome("ok",
                 WriteFile(ws, history_path_cub(n_bootstrap, n_subset, hard_bottleneck, oracle_only), history),
                 MakeDirs(ds, history_folder_cub(oracle_only)))

load_history_cub(ws, n_bootstrap, n_subset, hard_bottleneck, oracle_only) ==
    PickleLoad(ws, history_path_cub(n_bootstrap, n_subset, hard_bottleneck, oracle_only))

----------------------------------------------------------------------------
(* SpecHistory: one configuration of histories, saved and then loaded       *)

BootstrapCounts == 1..MaxBootstrap
Histories == {"histories_a", "histories_b"}

InitHistory ==
    /\ dataset \in Datasets
    /\ \E n_subset \in SubsetIds(dataset), n_bootstrap \in BootstrapCounts,
          hard_bottleneck \in BOOLEAN, oracle_only \in BOOLEAN, history \in Histories :
          call = [NoCall EXCEPT !.n_classes = 10, !.n_attr = 5, !.signal_strength = 98,
                     !.n_subset = n_subset, !.n_bootstrap = n_bootstrap,
                     !.hard_bottleneck = hard_bottleneck, !.oracle_only = oracle_only,
                     !.history = history]
    /\ weights = << >>
    /\ dirs = {}
    /\ files = << >>
    /\ before = << >>
    /\ result = NoResult
    /\ log = << >>
    /\ cfg = None
    /\ pc = << >>
    /\ loc = << >>

\* save_history_shapes / save_history_cub with the configuration
SaveHistory ==
    /\ call.op = "none"
    /\ LET out == IF dataset = "shapes"
                  THEN save_history_shapes(weights, dirs, call.n_classes, call.n_attr,
                                           call.signal_strength, call.n_bootstrap, call.n_subset,
                                           call.history, call.oracle_only, call.hard_bottleneck)
                  ELSE save_history_cub(weights, dirs, call.n_bootstrap, call.n_subset,
                                        call.history, call.oracle_only, call.hard_bottleneck)
       IN  /\ weights' = out.weights
           /\ dirs' = out.dirs
           /\ result' = [NoResult EXCEPT !.status = out.status]
    /\ call' = [call EXCEPT !.op = "save_history"]
    /\ UNCHANGED << dataset, files, log, cfg, pc, loc, before >>

\* load_history_shapes / load_history_cub with the same configuration
LoadHistory ==
    /\ call.op = "save_history"
    /\ result' = IF dataset = "shapes"
                 THEN load_history_shapes(weights, call.n_classes, call.n_attr,
                                          call.signal_strength, call.n_bootstrap, call.n_subset,
                                          call.hard_bottleneck, call.oracle_only)
                 ELSE load_history_cub(weights, call.n_bootstrap, call.n_subset,
                                       call.hard_bottleneck, call.oracle_only)
    /\ call' = [call EXCEPT !.op = "load_history"]
    /\ UNCHANGED << dataset, files, dirs, log, cfg, pc, loc, weights, before >>

NextHistory == SaveHistory \/ LoadHistory

SpecHistory == InitHistory /\ [][NextHistory]_vars

\* the path a save of histories of the run's dataset writes
HistorySavePath(n_subset, n_bootstrap, hard_bottleneck, oracle_only) ==
    IF dataset = "shapes"
    THEN save_history_path_shapes(10, 5, 98, n_bootstrap, n_subset, oracle_only, hard_bottleneck)
    ELSE history_path_cub(n_bootstrap, n_subset, hard_bottleneck, oracle_only)

\* C11: histories saved are the histories the load of the same configuration
\* returns, and the file an oracle_only save wrote is the file of no
\* non-oracle save.
C11_HistoryRoundTrip ==
    /\ call.op = "load_history" =>
           (result.status = "ok" /\ result.value = call.history)
    /\ (call.op # "none" /\ call.oracle_only) =>
           \A n_subset \in SubsetIds(dataset), n_bootstrap \in BootstrapCounts,
              hard_bottleneck \in BOOLEAN :
              HistorySavePath(n_subset, n_bootstrap, hard_bottleneck, FALSE) \notin DOMAIN weights

----------------------------------------------------------------------------
(* make_file_path with its validation.  A file name given as a str is the  *)
(* sequence of its characters.                                             *)

RECURSIVE Text(_)
\* the str of a sequence of characters
Text(chars) == IF chars = << >> THEN "" ELSE Head(chars) \o Text(Tail(chars))

\* a check that knows the forward slash only
check_just_file_forward_slash_only(filename) ==
    \E i \in 1..Len(filename) : filename[i] = "/"

\* _check_just_file: TRUE when it raises ValueError
check_just_file(filename) ==
    \E i \in 1..Len(filename) : filename[i] = "/" \/ filename[i] = "\\"

PathOutcome(status, path, ds) == [status |-> status, path |-> path, dirs |-> ds]

\* a make_file_path that creates the folder whatever check_folder_exists is
make_file_path_always_creates(ds, folder, filename, check_folder_exists) ==
    IF check_just_file(filename)
    THEN PathOutcome("ValueError", << >>, ds)
    ELSE PathOutcome("ok", make_file_path(folder, Text(filename)), MakeDirs(ds, folder))

\* make_file_path(folder, filename, check_folder_exists) on the folders ds
make_file_path_checked(ds, folder, filename, check_folder_exists) ==
    IF check_just_file(filename)
    THEN PathOutcome("ValueError", << >>, ds)
    ELSE PathOutcome("ok", make_file_path(folder, Text(filename)),
                     IF check_folder_exists THEN MakeDirs(ds, folder) ELSE ds)

----------------------------------------------------------------------------
(* SpecPath: calls of make_file_path on a results tree                      *)

Folders(ds) ==
    { << RESULTS_FOLDER >>, << RESULTS_FOLDER, PLOTS_FOLDER >>,
      << RESULTS_FOLDER, PLOTS_FOLDER, get_dataset_folder(ds) >> }

Filenames ==
    { << "e", ".", "p" >>, << "s", "/", "e" >>, << "s", "\\", "e" >>,
      << "/", "e" >>, << "e", "\\" >>, << ".", "." >> }

\* the folders that exist at the start: an initial part of the tree
InitialDirs(ds) ==
    { {f \in Folders(ds) : Len(f) <= n} : n \in 0..3 }

OldPlot == << RESULTS_FOLDER, PLOTS_FOLDER, "old.pdf" >>

InitPath ==
    /\ dataset \in Datasets
    /\ dirs \in InitialDirs(dataset)
    /\ weights = IF << RESULTS_FOLDER, PLOTS_FOLDER >> \in dirs
                 THEN [q \in {OldPlot} |-> "plot"] ELSE << >>
    /\ call = NoCall
    /\ files = << >>
    /\ before = << >>
    /\ result = NoResult
    /\ log = << >>
    /\ cfg = None
    /\ pc = << >>
    /\ loc = << >>

MakeFilePath ==
    \E folder \in Folders(dataset), filename \in Filenames, check_folder_exists \in BOOLEAN :
        LET out == make_file_path_checked(dirs, folder, filename, check_folder_exists)
        IN  /\ dirs' = out.dirs
            /\ result' = [status |-> out.status, value |-> out.path, warnings |-> << >>,
                          opened |-> {}]
            /\ call' = [NoCall EXCEPT !.op = "make_file_path", !.folder = folder,
                           !.filename = filename,
                           !.check_folder_exists = check_folder_exists]
            /\ UNCHANGED << dataset, files, log, cfg, pc, loc, weights, before >>

NextPath == MakeFilePath

SpecPath == InitPath /\ [][NextPath]_vars

HasSeparator(filename) ==
    \E i \in 1..Len(filename) : filename[i] \in {"/", "\\"}

Ancestors(folder) == {SubSeq(folder, 1, i) : i \in 1..Len(folder)}

\* C12: a call of make_file_path whose file name holds "/" or "\" ends in
\* ValueError, returns no path and leaves folders and files as they were,
\* also with check_folder_exists=True.
C12_RejectsSeparator ==
    [][ (call'.op = "make_file_path" /\ HasSeparator(call'.filename)) =>
            /\ result'.status = "ValueError"
            /\ result'.value = << >>
            /\ dirs' = dirs
            /\ weights' = weights
            /\ files' = files ]_vars

C12_Witness ==
    /\ call.op = "make_file_path"
    /\ HasSeparator(call.filename)
    /\ call.check_folder_exists
    /\ call.folder \notin dirs
    /\ result.status = "ValueError"

\* C13: a call of make_file_path with a bare file name returns folder /
\* filename; with check_folder_exists=True the folder exists afterwards and
\* nothing but the folder and its ancestors was added; with
\* check_folder_exists=False the folders are as before; files are untouched.
C13_BareFilename ==
    [][ (call'.op = "make_file_path" /\ ~HasSeparator(call'.filename)) =>
            /\ result'.status = "ok"
            /\ result'.value = Append(call'.folder, Text(call'.filename))
            /\ weights' = weights
            /\ files' = files
            /\ IF call'.check_folder_exists
               THEN /\ call'.folder \in dirs'
                    /\ dirs \subseteq dirs'
                    /\ dirs' \ dirs \subseteq Ancestors(call'.folder)
               ELSE dirs' = dirs ]_vars

\* a bare name was joined to a folder that was not there and is not created,
\* beside a folder that holds a file
C13_Witness ==
    /\ call.op = "make_file_path"
    /\ ~HasSeparator(call.filename)
    /\ ~call.check_folder_exists
    /\ call.folder \notin dirs
    /\ OldPlot \in DOMAIN weights
    /\ result.status = "ok"

----------------------------------------------------------------------------
(* SpecRegistry: one call of an operation that takes a model type           *)

InitRegistry ==
    /\ dataset \in Datasets
    /\ \E n_subset \in SubsetIds(dataset), model_type \in ModelTypeInputs(dataset),
          metric \in Metrics, hard_bottleneck \in BOOLEAN, adversarial \in BOOLEAN,
          hyperparameters_dict \in HyperparameterDicts :
          call = [NoCall EXCEPT !.n_classes = 10, !.n_attr = 5, !.signal_strength = 98,
                     !.n_subset = n_subset, !.model_type = model_type, !.metric = metric,
                     !.hard_bottleneck = hard_bottleneck, !.adversarial = adversarial,
                     !.state_dict = "weights_a",
                     !.hyperparameters_dict = hyperparameters_dict]
    /\ \E holds \in BOOLEAN :
          files = IF holds
                  THEN [q \in {KeyPath(dataset, call.n_subset, call.hard_bottleneck)} |->
                           yaml_dump(CanonMap(1))]
                  ELSE << >>
    /\ before = files
    /\ dirs = FoldersOf(files)
    /\ weights = << >>
    /\ result = NoResult
    /\ log = << >>
    /\ cfg = None
    /\ pc = << >>
    /\ loc = << >>

SaveModelCall ==
    /\ call.op = "none"
    /\ LET out == IF dataset = "shapes"
                  THEN save_model_shapes(weights, dirs, call.n_classes, call.n_attr,
                                         call.signal_strength, call.n_subset, call.state_dict,
                                         call.model_type, call.metric, call.hard_bottleneck,
                                         call.adversarial)
                  ELSE save_model_cub(weights, dirs, call.n_subset, call.state_dict,
                                      call.model_type, call.metric, call.hard_bottleneck,
                                      call.adversarial)
       IN  /\ weights' = out.weights
           /\ dirs' = out.dirs
           /\ result' = [NoResult EXCEPT !.status = out.status]
    /\ call' = [call EXCEPT !.op = "save_model"]
    /\ UNCHANGED << dataset, files, log, cfg, pc, loc, before >>

LoadModelCall ==
    /\ call.op = "none"
    /\ result' = IF dataset = "shapes"
                 THEN load_model_shapes(weights, call.n_classes, call.n_attr,
                                        call.signal_strength, call.n_subset, call.model_type,
                                        call.metric, call.hard_bottleneck, call.adversarial)
                 ELSE load_model_cub(weights, call.n_subset, call.model_type, call.metric,
                                     call.hard_bottleneck, call.adversarial)
    /\ call' = [call EXCEPT !.op = "load_model"]
    /\ UNCHANGED << dataset, files, dirs, log, cfg, pc, loc, weights, before >>

SaveHyperparametersCall ==
    /\ call.op = "none"
    /\ LET out == IF dataset = "shapes"
                  THEN save_hyperparameters_shapes(files, dirs, call.n_classes, call.n_attr,
                                                   call.signal_strength, call.n_subset,
                                                   call.hyperparameters_dict, call.model_type,
                                                   call.hard_bottleneck)
                  ELSE save_hyperparameters_cub(files, dirs, call.n_subset,
                                                call.hyperparameters_dict, call.model_type,
                                                call.hard_bottleneck)
       IN  /\ files' = out.files
           /\ dirs' = out.dirs
           /\ result' = [NoResult EXCEPT !.status = out.status]
    /\ call' = [call EXCEPT !.op = "save_hyperparameters"]
    /\ UNCHANGED << dataset, log, cfg, pc, loc, weights, before >>

NextRegistry == SaveModelCall \/ LoadModelCall \/ SaveHyperparametersCall

SpecRegistry == InitRegistry /\ [][NextRegistry]_vars

\* C14: a call of save_model_*, load_model_* or save_hyperparameters_* with
\* a model type outside the registry ends in ValueError, and no folder or
\* file was created, read or written.
C14_UnknownModelType ==
    (call.op \in {"save_model", "load_model", "save_hyperparameters"}
     /\ call.model_type = "unknown") =>
        /\ result.status = "ValueError"
        /\ result.opened = {}
        /\ files = before
        /\ dirs = FoldersOf(before)
        /\ weights = << >>

\* the refused save of hyperparameters, where no file of the key existed
C14_Witness ==
    /\ call.op = "save_hyperparameters"
    /\ call.model_type = "unknown"
    /\ before = << >>
    /\ result.status = "ValueError"

----------------------------------------------------------------------------
(* Operations that take a dataset name *)

\* dataset_name.lower().strip().replace("/", "").replace("\\", ""); the
\* names this module passes in are "shapes", "cub", " CUB", "shapes/" and
\* "imagenet"
normalise_dataset_name(dataset_name) ==
    CASE dataset_name = " CUB" -> "cub"
      [] dataset_name = "shapes/" -> "shapes"
      [] OTHER -> dataset_name

\* get_dataset_folder as a call: the folder, or ValueError
get_dataset_folder_call(dataset_name) ==
    IF normalise_dataset_name(dataset_name) \in {"shapes", "cub"}
    THEN Returned(get_dataset_folder(normalise_dataset_name(dataset_name)), << >>, {})
    ELSE Raised("ValueError", << >>, {})

\* the lines of a data file, parsed into a mapping
ReadDataFile(fs, path) ==
    IF path \in DOMAIN fs
    THEN Returned(fs[path], << >>, {path})
    ELSE Raised("FileNotFoundError", << >>, {})

\* get_attribute_mapping: identity on 0..8 for Shapes, the file's mapping
\* for CUB, and the dict it started from, {}, for every other name
get_attribute_mapping(fs, dataset_name) ==
    CASE normalise_dataset_name(dataset_name) = "shapes" ->
             Returned([i \in 0..8 |-> i], << >>, {})
      [] normalise_dataset_name(dataset_name) = "cub" ->
             ReadDataFile(fs, << DATA_FOLDER, ATTRIBUTE_MAPPING_PATH_CUB >>)
      [] OTHER -> Returned(EmptyMap, << >>, {})

\* get_attribute_names: attribute_names_path is bound in two branches only
get_attribute_names(fs, dataset_name) ==
    CASE normalise_dataset_name(dataset_name) = "cub" ->
             ReadDataFile(fs, << DATA_FOLDER, ATTRIBUTE_NAMES_PATH_CUB >>)
      [] normalise_dataset_name(dataset_name) = "shapes" ->
             ReadDataFile(fs, << DATA_FOLDER, ATTRIBUTE_NAMES_PATH_SHAPES >>)
      [] OTHER -> Raised("UnboundLocalError", << >>, {})

\* save_adversarial_hyperparameters: the folder is not created
save_adversarial_hyperparameters(fs, ds, dataset_name, hyperparameters, end_name) ==
    IF strip_lower(dataset_name) \notin {"shapes", "cub"}
    THEN SaveOutcome("ValueError", fs, ds)
    ELSE LET folder_name == << RESULTS_FOLDER, HYPERPARAMETERS_FOLDER,
                               IF strip_lower(dataset_name) = "shapes"
                               THEN SHAPES_FOLDER ELSE CUB_FOLDER >>
             file_path == make_file_path(
                              folder_name,
                              "adversarial_hyperparameters" \o end_name \o ".yaml")
         IN  IF folder_name \in ds
             THEN SaveOutcome("ok", WriteFile(fs, file_path, yaml_dump(hyperparameters)), ds)
             ELSE SaveOutcome("FileNotFoundError", fs, ds)

----------------------------------------------------------------------------
(* SpecDataset: one call of an operation that takes a dataset name          *)

DatasetNames == {"shapes", "cub", " CUB", "shapes/", "imagenet"}
EndNames == {"", "_v2"}

\* the data files of the repository
DataFiles ==
    [q \in { << DATA_FOLDER, ATTRIBUTE_MAPPING_PATH_CUB >>,
             << DATA_FOLDER, ATTRIBUTE_NAMES_PATH_CUB >>,
             << DATA_FOLDER, ATTRIBUTE_NAMES_PATH_SHAPES >> } |-> [i \in 0..1 |-> i + 1]]

InitDataset ==
    /\ dataset = "shapes"
    /\ \E dataset_name \in DatasetNames, end_name \in EndNames,
          hyperparameters \in {EmptyMap, CanonMap(1)} :
          call = [NoCall EXCEPT !.dataset_name = dataset_name, !.end_name = end_name,
                     !.hyperparameters_dict = hyperparameters]
    /\ files \in {<< >>, DataFiles}
    /\ before = files
    /\ dirs \in { FoldersOf(files),
                  FoldersOf(files)
                  \cup MakeDirs({}, << RESULTS_FOLDER, HYPERPARAMETERS_FOLDER, SHAPES_FOLDER >>)
                  \cup MakeDirs({}, << RESULTS_FOLDER, HYPERPARAMETERS_FOLDER, CUB_FOLDER >>) }
    /\ weights = << >>
    /\ result = NoResult
    /\ log = << >>
    /\ cfg = None
    /\ pc = << >>
    /\ loc = << >>

GetDatasetFolder ==
    /\ call.op = "none"
    /\ result' = get_dataset_folder_call(call.dataset_name)
    /\ call' = [call EXCEPT !.op = "get_dataset_folder"]
    /\ UNCHANGED << dataset, files, dirs, log, cfg, pc, loc, weights, before >>

GetAttributeMapping ==
    /\ call.op = "none"
    /\ result' = get_attribute_mapping(files, call.dataset_name)
    /\ call' = [call EXCEPT !.op = "get_attribute_mapping"]
    /\ UNCHANGED << dataset, files, dirs, log, cfg, pc, loc, weights, before >>

GetAttributeNames ==
    /\ call.op = "none"
    /\ result' = get_attribute_names(files, call.dataset_name)
    /\ call' = [call EXCEPT !.op = "get_attribute_names"]
    /\ UNCHANGED << dataset, files, dirs, log, cfg, pc, loc, weights, before >>

SaveAdversarialHyperparameters ==
    /\ call.op = "none"
    /\ LET out == save_adversarial_hyperparameters(files, dirs, call.dataset_name,
                                                   call.hyperparameters_dict, call.end_name)
       IN  /\ files' = out.files
           /\ dirs' = out.dirs
           /\ result' = [NoResult EXCEPT !.status = out.status]
    /\ call' = [call EXCEPT !.op = "save_adversarial_hyperparameters"]
    /\ UNCHANGED << dataset, log, cfg, pc, loc, weights, before >>

NextDataset ==
    GetDatasetFolder \/ GetAttributeMapping \/ GetAttributeNames
    \/ SaveAdversarialHyperparameters

SpecDataset == InitDataset /\ [][NextDataset]_vars

\* C15: a call of get_dataset_folder, save_adversarial_hyperparameters,
\* get_attribute_mapping or get_attribute_names with a dataset name that is
\* neither "shapes" nor "cub" ends in ValueError; none returns a result.
C15_UnknownDataset ==
    (call.op # "none" /\ call.dataset_name = "imagenet") =>
        (result.status = "ValueError" /\ files = before)

----------------------------------------------------------------------------
(* Plots of CUB *)

\* file_path of save_mpo_plot_cub
mpo_plot_path_cub(n_bootstrap, n_subset, hard_bottleneck) ==
    make_file_path(get_cub_folder_path(PLOTS_FOLDER),
                   "mpo" \o sub_string_cub(n_subset) \o "_b" \o PyStr(n_bootstrap)
                   \o bottleneck_string(hard_bottleneck) \o ".pdf")

\* file_path of save_training_plot_cub
training_plot_path_cub(n_bootstrap, n_subset, hard_bottleneck, attr) ==
    make_file_path(get_cub_folder_path(PLOTS_FOLDER),
                   "training_history" \o (IF ~attr THEN "" ELSE "_attr")
                   \o sub_string_cub(n_subset) \o "_b" \o PyStr(n_bootstrap)
                   \o bottleneck_string(hard_bottleneck) \o ".pdf")

----------------------------------------------------------------------------
(* SpecCubPaths: the paths of the CUB artifacts of one configuration        *)

ArtifactKinds == {"history", "model", "hyperparameters", "mpo_plot", "training_plot"}

\* the path the save of an artifact kind writes and the path its load reads
\* (a plot is only saved), for subset id n_subset and the arguments c
cub_paths(kind, n_subset, c) ==
    CASE kind = "history" ->
             [save |-> history_path_cub(c.n_bootstrap, n_subset, c.hard_bottleneck, c.oracle_only),
              load |-> history_path_cub(c.n_bootstrap, n_subset, c.hard_bottleneck, c.oracle_only)]
      [] kind = "model" ->
             [save |-> make_file_path(get_cub_folder_path(SAVED_MODELS_FOLDER),
                                      save_model_filename_cub(c.model_type, n_subset, c.metric,
                                                              c.hard_bottleneck, c.adversarial)),
              load |-> make_file_path(get_cub_folder_path(SAVED_MODELS_FOLDER),
                                      load_model_filename_cub(c.model_type, n_subset, c.metric,
                                                              c.hard_bottleneck, c.adversarial))]
      [] kind = "hyperparameters" ->
             [save |-> hyperparameters_path_cub(n_subset, c.hard_bottleneck),
              load |-> hyperparameters_path_cub(n_subset, c.hard_bottleneck)]
      [] kind = "mpo_plot" ->
             [save |-> mpo_plot_path_cub(c.n_bootstrap, n_subset, c.hard_bottleneck),
              load |-> mpo_plot_path_cub(c.n_bootstrap, n_subset, c.hard_bottleneck)]
      [] kind = "training_plot" ->
             [save |-> training_plot_path_cub(c.n_bootstrap, n_subset, c.hard_bottleneck, c.attr),
              load |-> training_plot_path_cub(c.n_bootstrap, n_subset, c.hard_bottleneck, c.attr)]

InitCubPaths ==
    /\ dataset = "cub"
    /\ \E n_subset \in SubsetIds("cub"), n_bootstrap \in BootstrapCounts,
          model_type \in MODEL_STRINGS_ALL_CUB, metric \in Metrics,
          hard_bottleneck \in BOOLEAN, adversarial \in BOOLEAN, oracle_only \in BOOLEAN,
          attr \in BOOLEAN :
          call = [NoCall EXCEPT !.n_subset = n_subset, !.n_bootstrap = n_bootstrap,
                     !.model_type = model_type, !.metric = metric,
                     !.hard_bottleneck = hard_bottleneck, !.adversarial = adversarial,
                     !.oracle_only = oracle_only, !.attr = attr]
    /\ files = << >>
    /\ before = << >>
    /\ dirs = {}
    /\ weights = << >>
    /\ result = NoResult
    /\ log = << >>
    /\ cfg = None
    /\ pc = << >>
    /\ loc = << >>

\* the paths of one artifact kind are resolved
ResolveCub ==
    /\ call.op = "none"
    /\ \E kind \in ArtifactKinds :
          /\ result' = Returned(cub_paths(kind, call.n_subset, call), << >>, {})
          /\ call' = [call EXCEPT !.op = kind]
    /\ UNCHANGED << dataset, files, dirs, log, cfg, pc, loc, weights, before >>

NextCubPaths == ResolveCub

SpecCubPaths == InitCubPaths /\ [][NextCubPaths]_vars

HardText(h) == IF h THEN "_hard" ELSE ""

\* the file name of an artifact kind for the full dataset, as the save and
\* the load of the kind name it
FullName(kind, c, saving) ==
    CASE kind = "history" ->
             "histories" \o "_full" \o "_b" \o ToString(c.n_bootstrap)
             \o HardText(c.hard_bottleneck) \o ".pkl"
      [] kind = "model" ->
             c.model_type \o "_full" \o "_" \o c.metric
             \o HardText(c.hard_bottleneck /\ ~(saving /\ c.model_type = "cnn"))
             \o (IF c.adversarial THEN "_adversarial" ELSE "") \o ".pth"
      [] kind = "hyperparameters" ->
             "hyperparameters" \o "_full" \o HardText(c.hard_bottleneck) \o ".yaml"
      [] kind = "mpo_plot" ->
             "mpo" \o "_full" \o "_b" \o ToString(c.n_bootstrap)
             \o HardText(c.hard_bottleneck) \o ".pdf"
      [] kind = "training_plot" ->
             "training_history" \o (IF c.attr THEN "_attr" ELSE "") \o "_full"
             \o "_b" \o ToString(c.n_bootstrap) \o HardText(c.hard_bottleneck) \o ".pdf"

FileNameOf(path) == path[Len(path)]

----------------------------------------------------------------------------
(* The experiment driver of src/evaluation.py.                              *)
(* Its paths are str values joined with "/".  In SpecDriver, cfg holds the  *)
(* arguments of run_models_on_subsets_and_plot, pc the statement the run is *)
(* at, loc the locals of the driver and of train_and_evaluate_shapes, log   *)
(* the calls made to the collaborators, and weights the files written.      *)

\* constants.MODEL_STRINGS: the models of a run, in registration order
MODEL_STRINGS == << "cnn", "cbm" >>

\* a class_dir that is the same in fast runs
class_dir_ignores_fast(n_classes, n_attr, fast) ==
    "c" \o PyStr(n_classes) \o "_a" \o PyStr(n_attr) \o "/"

\* class_dir of the driver and of train_and_evaluate_shapes
class_dir(n_classes, n_attr, fast) ==
    "c" \o PyStr(n_classes) \o "_a" \o PyStr(n_attr) \o "/"
    \o (IF fast THEN "testing/" ELSE "")

\* subset_dir of the driver
subset_dir(subset) == "sub" \o PyStr(subset) \o "/"

\* save_model_path of train_and_evaluate_shapes
save_model_path(n_classes, n_attr, fast, sub_dir) ==
    "saved_models/" \o class_dir(n_classes, n_attr, fast) \o sub_dir

\* save_name of train_and_evaluate_shapes
save_name(i, n_bootstrap) == MODEL_STRINGS[i] \o "_b" \o PyStr(n_bootstrap)

\* a reload that takes the best-validation-accuracy checkpoint
checkpoint_path_accuracy(n_classes, n_attr, fast, sub_dir, i, n_bootstrap) ==
    save_model_path(n_classes, n_attr, fast, sub_dir) \o save_name(i, n_bootstrap)
    \o "_accuracy.pth"

\* the path train_and_evaluate_shapes reloads after training
checkpoint_path(n_classes, n_attr, fast, sub_dir, i, n_bootstrap) ==
    save_model_path(n_classes, n_attr, fast, sub_dir) \o save_name(i, n_bootstrap)
    \o "_loss.pth"

\* the two files the trainer writes when an epoch improves on its best
\* validation loss and accuracy: model_dir + model_save_name + suffix
trainer_checkpoints(ws, model_dir, model_save_name, state) ==
    WriteFile(WriteFile(ws, model_dir \o model_save_name \o "_loss.pth",
                        [state EXCEPT !.metric = "loss"]),
              model_dir \o model_save_name \o "_accuracy.pth",
              [state EXCEPT !.metric = "accuracy"])

\* evaluate_on_test_set: the test accuracy of a model holding a state
evaluate_on_test_set(state) ==
    50 + state.k + (IF state.metric = "loss" THEN 0 ELSE 10)

\* the running total of the histories: None, or a list with one history per model
NoHistories == [null |-> TRUE, list |-> << >>, raised |-> FALSE]

\* the metric keys the running total and the new history of model m share
shared_keys(histories_total, histories, m) ==
    DOMAIN histories_total.list[m] \cap DOMAIN histories[m]

\* a shared metric whose sequences differ in length
mismatched_length(histories_total, histories) ==
    \E m \in 1..Len(histories) :
        \E key \in shared_keys(histories_total, histories, m) :
            Len(histories_total.list[m][key]) # Len(histories[m][key])

\* an aggregator that returns the running mean
add_histories_averages(histories_total, histories, n_bootstrap) ==
    IF histories_total.null
    THEN [null |-> FALSE, list |-> histories, raised |-> FALSE]
    ELSE IF mismatched_length(histories_total, histories)
    THEN [histories_total EXCEPT !.raised = TRUE]
    ELSE [null |-> FALSE, raised |-> FALSE,
          list |-> [m \in 1..Len(histories) |->
                       [key \in DOMAIN histories_total.list[m] |->
                           IF key \in DOMAIN histories[m]
                           THEN [e \in 1..Len(histories[m][key]) |->
                                    (histories_total.list[m][key][e] + histories[m][key][e])
                                    \div n_bootstrap]
                           ELSE histories_total.list[m][key]]]]

\* utils.add_histories: the new histories on the first call; after that, for
\* each model and each metric key of both, the elementwise sum.  Sequences of
\* different length make it raise.
add_histories(histories_total, histories, n_bootstrap) ==
    IF histories_total.null
    THEN [null |-> FALSE, list |-> histories, raised |-> FALSE]
    ELSE IF mismatched_length(histories_total, histories)
    THEN [histories_total EXCEPT !.raised = TRUE]
    ELSE [null |-> FALSE, raised |-> FALSE,
          list |-> [m \in 1..Len(histories) |->
                       [key \in DOMAIN histories_total.list[m] |->
                           IF key \in DOMAIN histories[m]
                           THEN [e \in 1..Len(histories[m][key]) |->
                                    histories_total.list[m][key][e] + histories[m][key][e]]
                           ELSE histories_total.list[m][key]]]]

\* one call made to a collaborator
Event(ev, s, k, seed, what) == [ev |-> ev, s |-> s, k |-> k, seed |-> seed, what |-> what]

----------------------------------------------------------------------------
(* SpecDriver: one run of run_models_on_subsets_and_plot                    *)

SubsetLists == { << 3 >>, << 3, 5 >> }
BaseSeeds == {57}
TrainerOutcomes == {"none", "both"}

InitDriver ==
    /\ dataset = "shapes"
    /\ \E subsets \in SubsetLists, n_bootstrap \in BootstrapCounts, fast \in BOOLEAN,
          base_seed \in BaseSeeds :
          cfg = [n_classes |-> 10, n_attr |-> 5, subsets |-> subsets,
                 n_bootstrap |-> n_bootstrap, fast |-> fast, base_seed |-> base_seed,
                 direct |-> FALSE]
    /\ pc = "load_test"
    /\ loc = [s |-> 1, i |-> 0, seed |-> None, test_loader |-> None, loads |-> 0,
              histories_total |-> NoHistories,
              test_accuracies_lists |-> [m \in 1..Len(MODEL_STRINGS) |-> << >>],
              m |-> 1, histories |-> << >>, history |-> << >>, model_state |-> << >>,
              subset_seed |-> [n \in {3, 5} |-> None], train_seed |-> None]
    /\ log = << >>
    /\ weights = << >>
    /\ files = << >>
    /\ before = << >>
    /\ dirs = {}
    /\ call = NoCall
    /\ result = NoResult

Subset == cfg.subsets[loc.s]

DriverFrame == UNCHANGED << dataset, files, dirs, call, cfg, before >>

\* a driver that sets the seed once, before the first subset
LoadTestSet_seed_runs_on ==
    /\ pc = "load_test"
    /\ loc' = [loc EXCEPT !.seed = IF loc.s = 1 THEN cfg.base_seed ELSE loc.seed,
                          !.histories_total = NoHistories,
                          !.test_loader = loc.loads + 1, !.loads = loc.loads + 1,
                          !.i = 0]
    /\ log' = Append(log, Event("load_data_shapes", loc.s, 0, None,
                                [mode |-> "test", subset_dir |-> "", loader |-> loc.loads + 1]))
    /\ pc' = "make_subset"
    /\ UNCHANGED << weights, result >>
    /\ DriverFrame

\* lines 165-173: seed = base_seed, histories_total = None, the test loader
LoadTestSet ==
    /\ pc = "load_test"
    /\ loc' = [loc EXCEPT !.seed = cfg.base_seed, !.histories_total = NoHistories,
                          !.test_loader = loc.loads + 1, !.loads = loc.loads + 1,
                          !.i = 0]
    /\ log' = Append(log, Event("load_data_shapes", loc.s, 0, None,
                                [mode |-> "test", subset_dir |-> "", loader |-> loc.loads + 1]))
    /\ pc' = "make_subset"
    /\ UNCHANGED << weights, result >>
    /\ DriverFrame

\* a driver that increments the seed before it generates the subset
MakeSubset_increments_first ==
    /\ pc = "make_subset"
    /\ log' = Append(log, Event("make_subset_shapes", loc.s, loc.i, loc.seed + 1,
                                [subset |-> Subset]))
    /\ loc' = [loc EXCEPT !.subset_seed[Subset] = loc.seed + 1, !.seed = loc.seed + 1]
    /\ pc' = "load_train_val"
    /\ UNCHANGED << weights, result >>
    /\ DriverFrame

\* lines 175-176: make_subset_shapes(dataset_dir, subset, n_classes, seed); seed += 1
MakeSubset ==
    /\ pc = "make_subset"
    /\ log' = Append(log, Event("make_subset_shapes", loc.s, loc.i, loc.seed,
                                [subset |-> Subset]))
    /\ loc' = [loc EXCEPT !.subset_seed[Subset] = loc.seed, !.seed = loc.seed + 1]
    /\ pc' = "load_train_val"
    /\ UNCHANGED << weights, result >>
    /\ DriverFrame

\* a driver that loads the test set again in every bootstrap iteration
LoadTrainVal_and_test ==
    /\ pc = "load_train_val"
    /\ log' = log \o << Event("load_data_shapes", loc.s, loc.i, None,
                              [mode |-> "test", subset_dir |-> "",
                               loader |-> loc.loads + 1]),
                        Event("load_data_shapes", loc.s, loc.i, None,
                              [mode |-> "train-val", subset_dir |-> subset_dir(Subset),
                               loader |-> 0]) >>
    /\ loc' = [loc EXCEPT !.test_loader = loc.loads + 1, !.loads = loc.loads + 1]
    /\ pc' = "enter_training"
    /\ UNCHANGED << weights, result >>
    /\ DriverFrame

\* lines 178-180: the train and validation loaders of the subset
LoadTrainVal ==
    /\ pc = "load_train_val"
    /\ log' = Append(log, Event("load_data_shapes", loc.s, loc.i, None,
                                [mode |-> "train-val", subset_dir |-> subset_dir(Subset),
                                 loader |-> 0]))
    /\ pc' = "enter_training"
    /\ UNCHANGED << loc, weights, result >>
    /\ DriverFrame

\* a driver that passes the seed of the bootstrap iteration to the training
EnterTraining_passes_loop_seed ==
    /\ pc = "enter_training"
    /\ log' = Append(log, Event("train_and_evaluate_shapes", loc.s, loc.i, loc.seed,
                                [sub_dir |-> subset_dir(Subset),
                                 test_loader |-> loc.test_loader,
                                 n_bootstrap |-> cfg.n_bootstrap]))
    /\ loc' = [loc EXCEPT !.m = 1, !.histories = << >>, !.train_seed = loc.seed]
    /\ pc' = "train"
    /\ UNCHANGED << weights, result >>
    /\ DriverFrame

\* lines 182-185 and 77-87: train_and_evaluate_shapes is entered
EnterTraining ==
    /\ pc = "enter_training"
    /\ log' = Append(log, Event("train_and_evaluate_shapes", loc.s, loc.i, cfg.base_seed,
                                [sub_dir |-> subset_dir(Subset),
                                 test_loader |-> loc.test_loader,
                                 n_bootstrap |-> cfg.n_bootstrap]))
    /\ loc' = [loc EXCEPT !.m = 1, !.histories = << >>, !.train_seed = cfg.base_seed]
    /\ pc' = "train"
    /\ UNCHANGED << weights, result >>
    /\ DriverFrame

\* lines 105-106: seed_everything(seed), only when a seed was given
seed_everything(seed, s, k, m) ==
    IF seed # None
    THEN << Event("seed_everything", s, k, seed, [model |-> MODEL_STRINGS[m]]) >>
    ELSE << >>

\* lines 90-117: the model is seeded and trained; the trainer writes its
\* checkpoints, or none when no epoch ran
TrainModel ==
    /\ pc = "train"
    /\ \E outcome \in TrainerOutcomes :
          LET state == [subset |-> Subset, k |-> loc.i, model |-> MODEL_STRINGS[loc.m],
                        metric |-> "last"]
          IN  /\ weights' = IF outcome = "both"
                            THEN trainer_checkpoints(
                                     weights,
                                     save_model_path(cfg.n_classes, cfg.n_attr, cfg.fast,
                                                     subset_dir(Subset)),
                                     save_name(loc.m, cfg.n_bootstrap), state)
                            ELSE weights
              /\ loc' = [loc EXCEPT !.model_state = state,
                                    !.history = [val_loss |-> << 1 >>]]
              /\ log' = log \o seed_everything(loc.train_seed, loc.s, loc.i, loc.m)
                         \o << Event("train", loc.s, loc.i, loc.train_seed,
                                     [model |-> MODEL_STRINGS[loc.m],
                                      wrote |-> outcome]) >>
    /\ pc' = "reload"
    /\ UNCHANGED result
    /\ DriverFrame

\* a reload that takes the checkpoint of the first model for every model
ReloadCheckpoint_first_model ==
    /\ pc = "reload"
    /\ LET path == checkpoint_path(cfg.n_classes, cfg.n_attr, cfg.fast, subset_dir(Subset),
                                   1, cfg.n_bootstrap)
       IN  /\ log' = Append(log, Event("torch.load", loc.s, loc.i, None, [path |-> path]))
           /\ IF path \in DOMAIN weights
              THEN /\ loc' = [loc EXCEPT !.model_state = weights[path]]
                   /\ pc' = "evaluate"
                   /\ UNCHANGED result
              ELSE /\ result' = Raised("FileNotFoundError", << >>, {})
                   /\ pc' = "failed"
                   /\ UNCHANGED loc
    /\ UNCHANGED weights
    /\ DriverFrame

\* lines 119-120: torch.load of the checkpoint, model.load_state_dict
ReloadCheckpoint ==
    /\ pc = "reload"
    /\ LET path == checkpoint_path(cfg.n_classes, cfg.n_attr, cfg.fast, subset_dir(Subset),
                                   loc.m, cfg.n_bootstrap)
       IN  /\ log' = Append(log, Event("torch.load", loc.s, loc.i, None, [path |-> path]))
           /\ IF path \in DOMAIN weights
              THEN /\ loc' = [loc EXCEPT !.model_state = weights[path]]
                   /\ pc' = "evaluate"
                   /\ UNCHANGED result
              ELSE /\ result' = Raised("FileNotFoundError", << >>, {})
                   /\ pc' = "failed"
                   /\ UNCHANGED loc
    /\ UNCHANGED weights
    /\ DriverFrame

\* lines 121-123: the test accuracy is added to the history of the model
EvaluateModel ==
    /\ pc = "evaluate"
    /\ log' = Append(log, Event("evaluate_on_test_set", loc.s, loc.i, None,
                                [model |-> MODEL_STRINGS[loc.m], state |-> loc.model_state]))
    /\ loc' = [loc EXCEPT
                 !.histories = Append(loc.histories,
                                      [val_loss |-> loc.history.val_loss,
                                       test_accuracy |->
                                           << evaluate_on_test_set(loc.model_state) >>]),
                 !.m = loc.m + 1]
    /\ pc' = IF loc.m < Len(MODEL_STRINGS) THEN "train" ELSE "return"
    /\ UNCHANGED << weights, result >>
    /\ DriverFrame

\* lines 125 and 186: the histories are returned and added to the total
AddHistories ==
    /\ pc = "return"
    /\ ~cfg.direct
    /\ LET total == add_histories(loc.histories_total, loc.histories, cfg.n_bootstrap)
       IN  IF total.raised
           THEN /\ result' = Raised("ValueError", << >>, {})
                /\ pc' = "failed"
                /\ UNCHANGED loc
           ELSE /\ loc' = [loc EXCEPT !.histories_total = total, !.i = loc.i + 1]
                /\ pc' = IF loc.i + 1 < cfg.n_bootstrap THEN "make_subset" ELSE "collect"
                /\ UNCHANGED result
    /\ UNCHANGED << log, weights >>
    /\ DriverFrame

\* lines 188-189: the test accuracy of each model is appended to its list
CollectTestAccuracies ==
    /\ pc = "collect"
    /\ loc' = [loc EXCEPT !.test_accuracies_lists =
                   [m \in 1..Len(MODEL_STRINGS) |->
                       Append(loc.test_accuracies_lists[m],
                              loc.histories_total.list[m].test_accuracy[1])]]
    /\ pc' = "plot"
    /\ UNCHANGED << log, weights, result >>
    /\ DriverFrame

\* the name of the training-history plot of a subset
plot_save_name(n_classes, n_attr, fast, n_bootstrap, subset) ==
    class_dir(n_classes, n_attr, fast) \o "c" \o PyStr(n_classes) \o "_a" \o PyStr(n_attr)
    \o "_b" \o PyStr(n_bootstrap) \o "_sub" \o PyStr(subset) \o ".png"

\* lines 191-195: the training-history plot of the subset
PlotHistories ==
    /\ pc = "plot"
    /\ weights' = WriteFile(weights,
                            "plots/" \o plot_save_name(cfg.n_classes, cfg.n_attr, cfg.fast,
                                                       cfg.n_bootstrap, Subset),
                            loc.histories_total.list)
    /\ log' = Append(log, Event("plot_training_histories", loc.s, loc.i, None,
                                [subset |-> Subset]))
    /\ pc' = "pickle"
    /\ UNCHANGED << loc, result >>
    /\ DriverFrame

\* pickle_save_name of the driver
pickle_save_name(n_classes, n_attr, fast, n_bootstrap, subset) ==
    "history/" \o class_dir(n_classes, n_attr, fast) \o "histories_sub" \o PyStr(subset)
    \o "_b" \o PyStr(n_bootstrap) \o ".pkl"

\* lines 196-199: the histories of the subset are pickled
PickleHistories ==
    /\ pc = "pickle"
    /\ weights' = WriteFile(weights,
                            pickle_save_name(cfg.n_classes, cfg.n_attr, cfg.fast,
                                             cfg.n_bootstrap, Subset),
                            loc.histories_total.list)
    /\ pc' = "reset"
    /\ UNCHANGED << loc, log, result >>
    /\ DriverFrame

\* a driver that leaves the subset as the last bootstrap iteration made it
ResetSubset_keeps_last_seed ==
    /\ pc = "reset"
    /\ loc' = [loc EXCEPT !.s = loc.s + 1]
    /\ pc' = IF loc.s < Len(cfg.subsets) THEN "load_test" ELSE "final"
    /\ UNCHANGED << log, weights, result >>
    /\ DriverFrame

\* line 200: the subset is generated again with base_seed
ResetSubset ==
    /\ pc = "reset"
    /\ log' = Append(log, Event("make_subset_shapes", loc.s, loc.i, cfg.base_seed,
                                [subset |-> Subset]))
    /\ loc' = [loc EXCEPT !.subset_seed[Subset] = cfg.base_seed, !.s = loc.s + 1]
    /\ pc' = IF loc.s < Len(cfg.subsets) THEN "load_test" ELSE "final"
    /\ UNCHANGED << weights, result >>
    /\ DriverFrame

\* lines 202-206: the test-accuracy plot and the pickled accuracy lists
FinalPlotAndPickle ==
    /\ pc = "final"
    /\ weights' = WriteFile(
                      WriteFile(weights,
                                "plots/" \o class_dir(cfg.n_classes, cfg.n_attr, cfg.fast)
                                \o "test_accuracies_b" \o PyStr(cfg.n_bootstrap) \o ".png",
                                loc.test_accuracies_lists),
                      "history/" \o class_dir(cfg.n_classes, cfg.n_attr, cfg.fast)
                      \o "test_accuracies_b" \o PyStr(cfg.n_bootstrap) \o ".pkl",
                      loc.test_accuracies_lists)
    /\ log' = Append(log, Event("plot_subset_test_accuracies", loc.s, 0, None,
                                [subsets |-> cfg.subsets]))
    /\ result' = Returned(PyNone, << >>, {})
    /\ pc' = "done"
    /\ UNCHANGED loc
    /\ DriverFrame

\* a driver that goes on with the next subset when a step fails
Raise_skips_subset ==
    /\ pc \notin {"failed", "done"}
    /\ log' = Append(log, Event("raise", loc.s, loc.i, None, [step |-> pc]))
    /\ loc' = [loc EXCEPT !.s = loc.s + 1]
    /\ pc' = IF loc.s < Len(cfg.subsets) THEN "load_test" ELSE "final"
    /\ UNCHANGED << weights, result >>
    /\ DriverFrame

\* lines 164-206 hold no try/except: an exception raised by the step the run
\* is at (a loader, the generator, a trainer, torch.load, the evaluation,
\* add_histories, a plot, a pickle) leaves run_models_on_subsets_and_plot.
\* The step that raised has had no effect.
Raise ==
    /\ pc \notin {"failed", "done"}
    /\ log' = Append(log, Event("raise", loc.s, loc.i, None, [step |-> pc]))
    /\ result' = Raised("Exception", << >>, {})
    /\ pc' = "failed"
    /\ UNCHANGED << loc, weights >>
    /\ DriverFrame

NextDriver ==
    \/ Raise
    \/ LoadTestSet \/ MakeSubset \/ LoadTrainVal \/ EnterTraining \/ TrainModel
    \/ ReloadCheckpoint \/ EvaluateModel \/ AddHistories \/ CollectTestAccuracies
    \/ PlotHistories \/ PickleHistories \/ ResetSubset \/ FinalPlotAndPickle

SpecDriver == InitDriver /\ [][NextDriver]_vars

----------------------------------------------------------------------------
(* SpecSeed: the runs of the driver, and the calls of                        *)
(* train_and_evaluate_shapes made without it, with a seed or with the        *)
(* default seed=None (line 48).                                              *)

TrainingSeeds == {None, 57}

\* lines 47-87: train_and_evaluate_shapes called with sub_dir, fast,
\* n_bootstrap and seed
InitTrain ==
    /\ dataset = "shapes"
    /\ \E subset \in {3, 5}, n_bootstrap \in BootstrapCounts, fast \in BOOLEAN,
          seed \in TrainingSeeds :
          /\ cfg = [n_classes |-> 10, n_attr |-> 5, subsets |-> << subset >>,
                    n_bootstrap |-> n_bootstrap, fast |-> fast, base_seed |-> 57,
                    direct |-> TRUE]
          /\ loc = [s |-> 1, i |-> 0, seed |-> None, test_loader |-> None, loads |-> 0,
                    histories_total |-> NoHistories,
                    test_accuracies_lists |-> [m \in 1..Len(MODEL_STRINGS) |-> << >>],
                    m |-> 1, histories |-> << >>, history |-> << >>,
                    model_state |-> << >>,
                    subset_seed |-> [n \in {3, 5} |-> None], train_seed |-> seed]
    /\ pc = "train"
    /\ log = << >>
    /\ weights = << >>
    /\ files = << >>
    /\ before = << >>
    /\ dirs = {}
    /\ call = NoCall
    /\ result = NoResult

\* line 125: return histories, to a caller other than the driver
ReturnHistories ==
    /\ pc = "return"
    /\ cfg.direct
    /\ result' = Returned(loc.histories, << >>, {})
    /\ pc' = "done"
    /\ UNCHANGED << loc, log, weights >>
    /\ DriverFrame

InitSeed == InitDriver \/ InitTrain

NextSeed == NextDriver \/ ReturnHistories

SpecSeed == InitSeed /\ [][NextSeed]_vars

----------------------------------------------------------------------------
(* SpecAggregate: the calls of add_histories the driver makes for one        *)
(* subset.  loc.histories_total is the running total, log the histories      *)
(* each call was given.                                                      *)

\* the histories train_and_evaluate_shapes can return: one per model, the
\* per-epoch metrics of one or two epochs and the single test accuracy; the
\* concept model also has its attribute loss
EpochValues == { << 1 >>, << 2 >>, << 1, 3 >> }
HistoryLists ==
    { << [val_loss |-> a, test_accuracy |-> << t >>],
         [val_loss |-> b, attr_loss |-> b, test_accuracy |-> << t + 1 >>] >> :
          a \in EpochValues, b \in EpochValues, t \in {50, 52} }

\* line 169: histories_total = None, before the bootstrap iterations
InitAggregate ==
    /\ dataset = "shapes"
    /\ \E n_bootstrap \in BootstrapCounts : cfg = [n_bootstrap |-> n_bootstrap]
    /\ pc = "return"
    /\ loc = [i |-> 0, histories_total |-> NoHistories]
    /\ log = << >>
    /\ weights = << >>
    /\ files = << >>
    /\ before = << >>
    /\ dirs = {}
    /\ call = NoCall
    /\ result = NoResult

\* line 186: histories_total = add_histories(histories_total, histories, n_bootstrap)
Accumulate ==
    /\ pc = "return"
    /\ loc.i < cfg.n_bootstrap
    /\ \E histories \in HistoryLists :
          LET total == add_histories(loc.histories_total, histories, cfg.n_bootstrap)
          IN  /\ log' = Append(log, histories)
              /\ before' = loc.histories_total
              /\ IF total.raised
                 THEN /\ result' = Raised("ValueError", << >>, {})
                      /\ pc' = "failed"
                      /\ UNCHANGED loc
                 ELSE /\ loc' = [loc EXCEPT !.histories_total = total, !.i = loc.i + 1]
                      /\ result' = Returned(total.list, << >>, {})
                      /\ UNCHANGED pc
    /\ UNCHANGED << dataset, files, dirs, call, cfg, weights >>

NextAggregate == Accumulate

SpecAggregate == InitAggregate /\ [][NextAggregate]_vars

\* the sum of entry e of a metric of model m over the first n histories
RECURSIVE SumOf(_, _, _, _)
SumOf(n, m, key, e) ==
    IF n = 0 THEN 0 ELSE log[n][m][key][e] + SumOf(n - 1, m, key, e)

\* C22: the first call returns the new histories unchanged; a later call
\* returns, for each model and metric, the elementwise sum of the running
\* total and the new history, whatever n_bootstrap is; a call given a
\* sequence of another length than the total's raises and returns nothing.
C22_SumLaw ==
    /\ (pc = "return" /\ Len(log) = 1) =>
           /\ loc.histories_total.list = log[1]
           /\ result.value = log[1]
    /\ (pc = "return" /\ Len(log) > 1) =>
           \A m \in 1..2 : \A key \in DOMAIN log[Len(log)][m] :
               /\ Len(loc.histories_total.list[m][key]) = Len(log[Len(log)][m][key])
               /\ Len(before.list[m][key]) = Len(log[Len(log)][m][key])
               /\ \A e \in 1..Len(log[Len(log)][m][key]) :
                      /\ loc.histories_total.list[m][key][e]
                             = before.list[m][key][e] + log[Len(log)][m][key][e]
                      /\ loc.histories_total.list[m][key][e] = SumOf(Len(log), m, key, e)
    /\ pc = "failed" <=>
           /\ Len(log) > 1
           /\ \E m \in 1..2 : \E key \in DOMAIN log[Len(log)][m] :
                  Len(log[Len(log)][m][key]) # Len(log[Len(log) - 1][m][key])
    /\ pc = "failed" =>
           /\ result.status = "ValueError"
           /\ loc.histories_total = before

\* the second call of a subset has summed two histories of two epochs
C22_Witness ==
    /\ pc = "return"
    /\ Len(log) = 2
    /\ cfg.n_bootstrap = 2
    /\ loc.histories_total.list[2].val_loss = << 2, 6 >>
    /\ loc.histories_total.list[1].test_accuracy = << 102 >>

\* the checkpoint files of model m of the subset the run is at, as they are
\* named on disk
LossCheckpoint(subset, m) ==
    "saved_models/c10_a5/" \o (IF cfg.fast THEN "testing/" ELSE "") \o "sub"
    \o ToString(subset) \o "/" \o MODEL_STRINGS[m] \o "_b" \o ToString(cfg.n_bootstrap)
    \o "_loss.pth"

LossCheckpoints ==
    { LossCheckpoint(cfg.subsets[s], m) : s \in 1..Len(cfg.subsets),
                                          m \in 1..Len(MODEL_STRINGS) }

\* C17: the state a model holds when it is evaluated on the test set is the
\* one stored at its best-validation-loss checkpoint path, and every
\* checkpoint the run has read is a best-validation-loss checkpoint.
C17_LossCheckpointEvaluated ==
    /\ pc = "evaluate" =>
           /\ LossCheckpoint(Subset, loc.m) \in DOMAIN weights
           /\ loc.model_state = weights[LossCheckpoint(Subset, loc.m)]
           /\ loc.model_state.metric = "loss"
           /\ log[Len(log)].ev = "torch.load"
           /\ log[Len(log)].what.path = LossCheckpoint(Subset, loc.m)
    /\ \A j \in 1..Len(log) :
           log[j].ev = "torch.load" => log[j].what.path \in LossCheckpoints

\* the second model is about to be evaluated, both its checkpoints on disk
C17_Witness ==
    /\ pc = "evaluate"
    /\ loc.m = 2
    /\ log[Len(log) - 1].ev = "train"
    /\ log[Len(log) - 1].what.wrote = "both"
    /\ loc.model_state.metric = "loss"

\* C18: a model is evaluated only when the trainer wrote its
\* best-validation-loss checkpoint in the same call; otherwise the call fails.
C18_MissingCheckpointFatal ==
    pc = "evaluate" =>
        /\ log[Len(log) - 1].ev = "train"
        /\ log[Len(log) - 1].what.wrote # "none"

\* C19: bootstrap iteration k of every subset of the list regenerates the
\* subset with seed base_seed + k.
C19_BootstrapSeeds ==
    /\ \A j \in 1..Len(log) :
           (log[j].ev = "make_subset_shapes" /\ log[j].k < cfg.n_bootstrap) =>
               /\ log[j].seed = cfg.base_seed + log[j].k
               /\ log[j].what.subset = cfg.subsets[log[j].s]
    /\ pc = "load_train_val" =>
           /\ log[Len(log)].ev = "make_subset_shapes"
           /\ log[Len(log)].s = loc.s
           /\ log[Len(log)].k = loc.i
           /\ log[Len(log)].seed = cfg.base_seed + loc.i
           /\ loc.subset_seed[Subset] = cfg.base_seed + loc.i

\* the second iteration of the second subset has regenerated it
C19_Witness ==
    /\ pc = "load_train_val"
    /\ loc.s = 2
    /\ loc.i = 1
    /\ loc.subset_seed[Subset] = cfg.base_seed + 1

\* the positions in the log of the test-set loads of the s-th subset
TestLoads(s) ==
    { j \in 1..Len(log) : /\ log[j].ev = "load_data_shapes"
                          /\ log[j].s = s
                          /\ log[j].what.mode = "test" }

\* the run ended in the test-set load of the subset it is at
TestLoadFailed ==
    /\ pc = "failed"
    /\ log[Len(log)].ev = "raise"
    /\ log[Len(log)].what.step = "load_test"

\* C20: the test set of a subset is loaded once, from the full data set,
\* before the first regeneration of the subset, and every training call of
\* the subset is given that loader.
C20_TestLoaderOnce ==
    \A s \in 1..Len(cfg.subsets) :
        (s < loc.s \/ (s = loc.s /\ pc # "load_test" /\ ~TestLoadFailed)) =>
            /\ Cardinality(TestLoads(s)) = 1
            /\ \A t \in TestLoads(s) :
                  /\ log[t].what.subset_dir = ""
                  /\ \A j \in 1..Len(log) :
                        (log[j].s = s /\ log[j].ev \in {"make_subset_shapes",
                                                        "train_and_evaluate_shapes"}) =>
                            /\ t < j
                            /\ log[j].ev = "train_and_evaluate_shapes" =>
                                   log[j].what.test_loader = log[t].what.loader

\* the second training call of a subset has been made
C20_Witness ==
    /\ pc = "train"
    /\ loc.i = 1
    /\ log[Len(log)].ev = "train_and_evaluate_shapes"
    /\ Cardinality(TestLoads(loc.s)) = 1

\* the files the plot and the histories of a subset are persisted in, as they
\* are named on disk
PlotFile(subset) ==
    "plots/c10_a5/" \o (IF cfg.fast THEN "testing/" ELSE "") \o "c10_a5_b"
    \o ToString(cfg.n_bootstrap) \o "_sub" \o ToString(subset) \o ".png"

HistoryFile(subset) ==
    "history/c10_a5/" \o (IF cfg.fast THEN "testing/" ELSE "") \o "histories_sub"
    \o ToString(subset) \o "_b" \o ToString(cfg.n_bootstrap) \o ".pkl"

\* the position in the log of the last call made for the s-th subset
LastCall(s) ==
    CHOOSE j \in 1..Len(log) :
        /\ log[j].s = s
        /\ \A n \in 1..Len(log) : log[n].s = s => n <= j

\* C21: the last call the driver makes for a subset regenerates it with
\* base_seed, after the plot and the histories of the subset were written;
\* until then the subset is the one of the last bootstrap iteration, and a
\* run that completes leaves every subset generated from base_seed.
C21_SeedReset ==
    /\ \A s \in 1..Len(cfg.subsets) :
           s < loc.s =>
               /\ log[LastCall(s)].ev = "make_subset_shapes"
               /\ log[LastCall(s)].seed = cfg.base_seed
               /\ log[LastCall(s)].what.subset = cfg.subsets[s]
               /\ \E j \in 1..LastCall(s) :
                      log[j].ev = "plot_training_histories" /\ log[j].s = s
               /\ PlotFile(cfg.subsets[s]) \in DOMAIN weights
               /\ HistoryFile(cfg.subsets[s]) \in DOMAIN weights
               /\ loc.subset_seed[cfg.subsets[s]] = cfg.base_seed
    /\ pc = "reset" =>
           /\ PlotFile(Subset) \in DOMAIN weights
           /\ HistoryFile(Subset) \in DOMAIN weights
           /\ loc.subset_seed[Subset] = cfg.base_seed + cfg.n_bootstrap - 1
    /\ pc = "done" =>
           \A s \in 1..Len(cfg.subsets) : loc.subset_seed[cfg.subsets[s]] = cfg.base_seed

\* a run of two subsets with two bootstrap iterations each has completed
C21_Witness ==
    /\ pc = "done"
    /\ cfg.n_bootstrap = 2
    /\ Len(cfg.subsets) = 2
    /\ \A s \in 1..2 : loc.subset_seed[cfg.subsets[s]] = cfg.base_seed
    /\ \E j \in 1..Len(log) : log[j].ev = "make_subset_shapes" /\ log[j].seed = cfg.base_seed + 1

\* the cross-subset test-accuracy plot and accuracy-list file, as they are
\* named on disk
FinalFiles ==
    { root \o "/c10_a5/" \o (IF cfg.fast THEN "testing/" ELSE "") \o "test_accuracies_b"
      \o ToString(cfg.n_bootstrap) \o ext :
          << root, ext >> \in { << "plots", ".png" >>, << "history", ".pkl" >> } }

\* the run ended while it processed the subset loc.s: nothing was done for a
\* later subset and the cross-subset files were not written
Aborted ==
    /\ \A j \in 1..Len(log) :
           /\ log[j].s <= loc.s
           /\ log[j].ev # "plot_subset_test_accuracies"
    /\ FinalFiles \cap DOMAIN weights = {}
    /\ result.status \notin {"ok", "none"}

\* C23: a step that raises ends the run; a run that ended in the processing
\* of a subset takes no further step, has done nothing for a later subset and
\* has written neither the test-accuracy plot nor the accuracy-list file.
C23_ErrorsAbort ==
    [][ /\ pc # "failed"
        /\ (Len(log') > Len(log) /\ log'[Len(log')].ev = "raise") => pc' = "failed"
        /\ (pc' = "failed" /\ loc'.s <= Len(cfg.subsets)) => Aborted' ]_vars

\* the training of the first of two subsets raised
C23_Witness ==
    /\ pc = "failed"
    /\ Len(cfg.subsets) = 2
    /\ loc.s = 1
    /\ log[Len(log)].ev = "raise"
    /\ log[Len(log)].what.step = "train"
    /\ Aborted

----------------------------------------------------------------------------
(* SpecParallel: the calls of train_and_evaluate_shapes of the bootstrap     *)
(* iterations of one subset, run as concurrent processes.  Each call is      *)
(* given the same sub_dir and n_bootstrap (lines 182-185).  pc[k] and loc[k] *)
(* are the position and the locals of iteration k, weights the shared disk.  *)

Iterations == 0..(cfg.n_bootstrap - 1)

\* a scheme that names the checkpoint after the iteration
bootstrap_save_name_by_iteration(k, i, n_bootstrap) == MODEL_STRINGS[i] \o "_b" \o PyStr(k)

\* line 103 in the call of iteration k: save_name is built from the argument
\* n_bootstrap, which line 185 sets to the bootstrap count
bootstrap_save_name(k, i, n_bootstrap) == save_name(i, n_bootstrap)

InitParallel ==
    /\ dataset = "shapes"
    /\ \E subset \in {3, 5}, n_bootstrap \in BootstrapCounts, fast \in BOOLEAN :
          cfg = [n_classes |-> 10, n_attr |-> 5, subsets |-> << subset >>,
                 n_bootstrap |-> n_bootstrap, fast |-> fast, base_seed |-> 57]
    /\ pc = [k \in 0..(cfg.n_bootstrap - 1) |-> "train"]
    /\ loc = [k \in 0..(cfg.n_bootstrap - 1) |->
                 [m |-> 1, model_state |-> << >>, path |-> "", replaced |-> None]]
    /\ log = << >>
    /\ weights = << >>
    /\ files = << >>
    /\ before = << >>
    /\ dirs = {}
    /\ call = NoCall
    /\ result = NoResult

ParallelFrame == UNCHANGED << dataset, files, dirs, call, cfg, before, result, log >>

\* lines 102-117 in iteration k: the trainer writes its checkpoints.
\* loc[k].replaced is the iteration whose checkpoint it wrote over.
ParallelTrain(k) ==
    /\ pc[k] = "train"
    /\ LET state == [subset |-> cfg.subsets[1], k |-> k, model |-> MODEL_STRINGS[loc[k].m],
                     metric |-> "last"]
           dir == save_model_path(cfg.n_classes, cfg.n_attr, cfg.fast,
                                  subset_dir(cfg.subsets[1]))
           name == bootstrap_save_name(k, loc[k].m, cfg.n_bootstrap)
           path == dir \o name \o "_loss.pth"
       IN  /\ weights' = trainer_checkpoints(weights, dir, name, state)
           /\ loc' = [loc EXCEPT ![k].model_state = state,
                                 ![k].path = path,
                                 ![k].replaced = IF path \in DOMAIN weights
                                                 THEN weights[path].k ELSE None]
    /\ pc' = [pc EXCEPT ![k] = "reload"]
    /\ ParallelFrame

\* lines 119-120 in iteration k
ParallelReload(k) ==
    /\ pc[k] = "reload"
    /\ LET path == save_model_path(cfg.n_classes, cfg.n_attr, cfg.fast,
                                   subset_dir(cfg.subsets[1]))
                   \o bootstrap_save_name(k, loc[k].m, cfg.n_bootstrap) \o "_loss.pth"
       IN  /\ path \in DOMAIN weights
           /\ loc' = [loc EXCEPT ![k].model_state = weights[path], ![k].path = path]
    /\ pc' = [pc EXCEPT ![k] = "evaluate"]
    /\ UNCHANGED weights
    /\ ParallelFrame

\* lines 121-123 in iteration k, and the next model or the return at 125
ParallelEvaluate(k) ==
    /\ pc[k] = "evaluate"
    /\ loc' = [loc EXCEPT ![k].m = loc[k].m + 1]
    /\ pc' = [pc EXCEPT ![k] = IF loc[k].m < Len(MODEL_STRINGS) THEN "train" ELSE "return"]
    /\ UNCHANGED weights
    /\ ParallelFrame

NextParallel ==
    \E k \in Iterations : ParallelTrain(k) \/ ParallelReload(k) \/ ParallelEvaluate(k)

SpecParallel == InitParallel /\ [][NextParallel]_vars

\* the checkpoint of model m of the subset, as it is named on disk: no
\* iteration index in it
SharedCheckpoint(m) ==
    "saved_models/c10_a5/" \o (IF cfg.fast THEN "testing/" ELSE "") \o "sub"
    \o ToString(cfg.subsets[1]) \o "/" \o MODEL_STRINGS[m] \o "_b"
    \o ToString(cfg.n_bootstrap) \o "_loss.pth"

----------------------------------------------------------------------------
\* the results files a run on 10 classes and 5 attributes can write, as they
\* are named on disk, for every subset and bootstrap count; testing is
\* "testing/" for the files of a fast run and "" for the others
Artifacts(testing) ==
    UNION { { "saved_models/c10_a5/" \o testing \o "sub" \o ToString(n) \o "/" \o model
              \o "_b" \o ToString(b) \o suffix :
                  model \in {"cnn", "cbm"}, suffix \in {"_loss.pth", "_accuracy.pth"} }
            \cup { "plots/c10_a5/" \o testing \o "c10_a5_b" \o ToString(b) \o "_sub"
                       \o ToString(n) \o ".png",
                   "history/c10_a5/" \o testing \o "histories_sub" \o ToString(n) \o "_b"
                       \o ToString(b) \o ".pkl",
                   "plots/c10_a5/" \o testing \o "test_accuracies_b" \o ToString(b) \o ".png",
                   "history/c10_a5/" \o testing \o "test_accuracies_b" \o ToString(b)
                       \o ".pkl" } :
            n \in {3, 5}, b \in BootstrapCounts }

\* C25: every file a fast run writes lies under testing/ of its root and
\* class folder, every file of another run lies directly under them, and no
\* path of the first kind is one of the second, for any subsets and
\* bootstrap counts.
C25_FastIsolation ==
    /\ cfg.fast => DOMAIN weights \subseteq Artifacts("testing/")
    /\ ~cfg.fast => DOMAIN weights \subseteq Artifacts("")
    /\ Artifacts("testing/") \cap Artifacts("") = {}

\* a fast run of two subsets has completed and written all its files
C25_Witness ==
    /\ pc = "done"
    /\ cfg.fast
    /\ Len(cfg.subsets) = 2
    /\ Cardinality(DOMAIN weights) = 14
    /\ DOMAIN weights \subseteq Artifacts("testing/")

----------------------------------------------------------------------------
\* the last call of a trainer wrote its best-validation-loss checkpoint
TrainerWrote ==
    /\ Len(log) > 1
    /\ log[Len(log) - 1].ev = "train"
    /\ log[Len(log) - 1].what.wrote = "both"

\* C26: when the trainer of a model wrote its best-validation-loss
\* checkpoint, the state the model is evaluated with is the one that trainer
\* wrote: of this subset, this bootstrap iteration and this model.
C26_FreshCheckpoint ==
    (pc = "evaluate" /\ TrainerWrote) =>
        /\ loc.model_state.subset = Subset
        /\ loc.model_state.k = loc.i
        /\ loc.model_state.model = MODEL_STRINGS[loc.m]
        /\ loc.model_state.metric = "loss"

\* the second model of the second iteration of the second subset is about to
\* be evaluated, and the first iteration left a checkpoint at the same path
C26_Witness ==
    /\ pc = "evaluate"
    /\ TrainerWrote
    /\ loc.s = 2 /\ loc.i = 1 /\ loc.m = 2
    /\ loc.model_state.k = 1
    /\ \E j \in 1..Len(log) :
           /\ log[j].ev = "train" /\ log[j].s = 2 /\ log[j].k = 0
           /\ log[j].what.model = "cbm" /\ log[j].what.wrote = "both"

----------------------------------------------------------------------------
\* C27: every call of train_and_evaluate_shapes the driver makes is given
\* base_seed, and each trainer call of a driver run comes right after
\* seed_everything(base_seed) for the same model, while the seeds of the
\* subset generation go up by one; a call given seed None calls
\* seed_everything never, a call given a seed calls it before each trainer.
C27_TrainingSeed ==
    /\ \A j \in 1..Len(log) :
           log[j].ev = "train_and_evaluate_shapes" => log[j].seed = cfg.base_seed
    /\ \A j \in 1..Len(log) :
           (log[j].ev = "train" /\ loc.train_seed # None) =>
               /\ j > 1
               /\ log[j - 1].ev = "seed_everything"
               /\ log[j - 1].seed = (IF cfg.direct THEN loc.train_seed ELSE cfg.base_seed)
               /\ log[j - 1].what.model = log[j].what.model
               /\ log[j - 1].s = log[j].s /\ log[j - 1].k = log[j].k
    /\ \A j \in 1..Len(log) :
           log[j].ev = "seed_everything" =>
               /\ loc.train_seed # None
               /\ log[j].seed = (IF cfg.direct THEN loc.train_seed ELSE cfg.base_seed)
               /\ j < Len(log) /\ log[j + 1].ev = "train"
    /\ (~cfg.direct /\ pc \in {"train", "reload", "evaluate", "return"}) =>
           loc.train_seed = cfg.base_seed
    /\ \A j \in 1..Len(log) :
           (log[j].ev = "make_subset_shapes" /\ log[j].k < cfg.n_bootstrap) =>
               log[j].seed = cfg.base_seed + log[j].k

\* the second bootstrap iteration of a driver run has regenerated the subset
\* with base_seed + 1 and trained its first model after seed_everything(base_seed)
C27_Witness ==
    /\ ~cfg.direct
    /\ pc = "reload"
    /\ loc.i = 1
    /\ loc.subset_seed[Subset] = cfg.base_seed + 1
    /\ log[Len(log)].ev = "train"
    /\ log[Len(log) - 1].ev = "seed_everything"
    /\ log[Len(log) - 1].seed = cfg.base_seed

----------------------------------------------------------------------------
(* Plots of Shapes *)

\* file_path of save_mpo_plot_shapes
mpo_plot_path_shapes(n_classes, n_attr, signal_strength, n_bootstrap, n_subset, hard_bottleneck) ==
    make_file_path(get_full_shapes_folder_path(n_classes, n_attr, signal_strength, PLOTS_FOLDER),
                   "mpo_sub" \o PyStr(n_subset) \o "_b" \o PyStr(n_bootstrap)
                   \o bottleneck_string(hard_bottleneck) \o ".pdf")

\* file_path of save_training_plot_shapes
training_plot_path_shapes(n_classes, n_attr, signal_strength, n_bootstrap, n_subset, hard_bottleneck, attr) ==
    make_file_path(get_full_shapes_folder_path(n_classes, n_attr, signal_strength, PLOTS_FOLDER),
                   "training_history_" \o (IF ~attr THEN "" ELSE "attr_") \o "sub"
                   \o PyStr(n_subset) \o "_b" \o PyStr(n_bootstrap)
                   \o bottleneck_string(hard_bottleneck) \o ".pdf")

\* file_path of save_test_plot_shapes
test_plot_path_shapes(n_classes, n_attr, signal_strength, n_bootstrap, hard_bottleneck) ==
    make_file_path(get_full_shapes_folder_path(n_classes, n_attr, signal_strength, PLOTS_FOLDER),
                   "test_accuracies_b" \o PyStr(n_bootstrap)
                   \o bottleneck_string(hard_bottleneck) \o ".pdf")

----------------------------------------------------------------------------
(* SpecCollision: two saves of model weights, one after the other, of two   *)
(* configurations.  call is the first configuration, cfg the second, before *)
(* the disk after the first save.                                           *)

\* class count, attribute count and signal strength of a Shapes data set
DatasetShapes == { << 10, 5, 98 >>, << 11, 5, 98 >>, << 10, 6, 98 >>, << 10, 5, 99 >>,
                   << 1, 10, 98 >> }

ModelConfigurations(ds) ==
    [shape : IF ds = "shapes" THEN DatasetShapes ELSE { << 10, 5, 98 >> },
     n_subset : SubsetIds(ds), model_type : ModelStrings(ds), metric : Metrics,
     hard_bottleneck : BOOLEAN, adversarial : BOOLEAN]

InitCollision ==
    /\ dataset \in Datasets
    /\ \E c \in ModelConfigurations(dataset) :
          call = [NoCall EXCEPT !.n_classes = c.shape[1], !.n_attr = c.shape[2],
                     !.signal_strength = c.shape[3], !.n_subset = c.n_subset,
                     !.model_type = c.model_type, !.metric = c.metric,
                     !.hard_bottleneck = c.hard_bottleneck, !.adversarial = c.adversarial,
                     !.state_dict = "weights_a"]
    /\ cfg = None
    /\ weights = << >>
    /\ dirs = {}
    /\ files = << >>
    /\ before = << >>
    /\ result = NoResult
    /\ log = << >>
    /\ pc = << >>
    /\ loc = << >>

\* save_model_shapes / save_model_cub of the first configuration
SaveFirstModel ==
    /\ call.op = "none"
    /\ LET out == IF dataset = "shapes"
                  THEN save_model_shapes(weights, dirs, call.n_classes, call.n_attr,
                                         call.signal_strength, call.n_subset, call.state_dict,
                                         call.model_type, call.metric, call.hard_bottleneck,
                                         call.adversarial)
                  ELSE save_model_cub(weights, dirs, call.n_subset, call.state_dict,
                                      call.model_type, call.metric, call.hard_bottleneck,
                                      call.adversarial)
       IN  /\ weights' = out.weights
           /\ before' = out.weights
           /\ dirs' = out.dirs
           /\ result' = [NoResult EXCEPT !.status = out.status]
    /\ call' = [call EXCEPT !.op = "save_model"]
    /\ UNCHANGED << dataset, files, log, cfg, pc, loc >>

\* save_model_shapes / save_model_cub of a second configuration
SaveSecondModel ==
    /\ call.op = "save_model"
    /\ \E c \in ModelConfigurations(dataset) :
          LET out == IF dataset = "shapes"
                     THEN save_model_shapes(weights, dirs, c.shape[1], c.shape[2], c.shape[3],
                                            c.n_subset, "weights_b", c.model_type, c.metric,
                                            c.hard_bottleneck, c.adversarial)
                     ELSE save_model_cub(weights, dirs, c.n_subset, "weights_b", c.model_type,
                                         c.metric, c.hard_bottleneck, c.adversarial)
          IN  /\ weights' = out.weights
              /\ dirs' = out.dirs
              /\ result' = [NoResult EXCEPT !.status = out.status]
              /\ cfg' = c
    /\ call' = [call EXCEPT !.op = "save_model_again"]
    /\ UNCHANGED << dataset, files, log, pc, loc, before >>

NextCollision == SaveFirstModel \/ SaveSecondModel

SpecCollision == InitCollision /\ [][NextCollision]_vars

\* the second configuration differs from the first in a parameter the file
\* of the weights is named after
Differs ==
    \/ dataset = "shapes" /\ cfg.shape # << call.n_classes, call.n_attr, call.signal_strength >>
    \/ cfg.n_subset # call.n_subset
    \/ cfg.model_type # call.model_type
    \/ cfg.metric # call.metric
    \/ cfg.adversarial # call.adversarial
    \/ cfg.hard_bottleneck # call.hard_bottleneck /\ call.model_type # "cnn"

\* the paths of the histories, hyperparameters and plots of a data set
OtherArtifacts(ds) ==
    IF ds = "shapes"
    THEN UNION { { save_history_path_shapes(t[1], t[2], t[3], b, n, o, h),
                   hyperparameters_path_shapes(t[1], t[2], t[3], n, h),
                   mpo_plot_path_shapes(t[1], t[2], t[3], b, n, h),
                   training_plot_path_shapes(t[1], t[2], t[3], b, n, h, o),
                   test_plot_path_shapes(t[1], t[2], t[3], b, h) } :
                 t \in DatasetShapes, b \in BootstrapCounts, n \in SubsetIds(ds),
                 o \in BOOLEAN, h \in BOOLEAN }
    ELSE UNION { { history_path_cub(b, n, h, o), hyperparameters_path_cub(n, h),
                   mpo_plot_path_cub(b, n, h), training_plot_path_cub(b, n, h, o) } :
                 b \in BootstrapCounts, n \in SubsetIds(ds), o \in BOOLEAN, h \in BOOLEAN }

----------------------------------------------------------------------------
\* the run ended in the step it names
FailedIn(step) ==
    /\ pc = "failed"
    /\ log[Len(log)].ev = "raise"
    /\ log[Len(log)].what.step = step

\* the positions in the log of the base-seed resets of the s-th subset
Resets(s) ==
    { j \in 1..Len(log) : /\ log[j].ev = "make_subset_shapes"
                          /\ log[j].s = s
                          /\ log[j].k = cfg.n_bootstrap }

\* C29 as stated: a run that fails during bootstrap iteration k of a subset
\* leaves the subset generated from base_seed + k.
C29_FailureLeavesIterationSeedAsStated ==
    (pc = "failed" /\ loc.s <= Len(cfg.subsets) /\ loc.i < cfg.n_bootstrap
     /\ ~FailedIn("load_test")) =>
        loc.subset_seed[Subset] = cfg.base_seed + loc.i

\* C29: the reset of a subset comes after all its bootstrap iterations, its
\* plot and its history file.  A run that fails in a subset, after the
\* generation of bootstrap iteration k has returned or in the plotting or
\* persistence, has made no reset of that subset and leaves it generated
\* from the last seed used, base_seed + k; the subsets before it are at
\* base_seed.
C29_FailureLeavesIterationSeed ==
    /\ \A s \in 1..Len(cfg.subsets) : \A j \in Resets(s) :
           /\ Cardinality({ t \in 1..j : /\ log[t].ev = "train_and_evaluate_shapes"
                                          /\ log[t].s = s }) = cfg.n_bootstrap
           /\ \E t \in 1..j : log[t].ev = "plot_training_histories" /\ log[t].s = s
           /\ HistoryFile(cfg.subsets[s]) \in DOMAIN weights
           /\ \A t \in 1..Len(log) : log[t].ev = "raise" => t > j
    /\ (pc = "failed" /\ loc.s <= Len(cfg.subsets) /\ ~FailedIn("load_test")
        /\ ~FailedIn("make_subset")) =>
           /\ Resets(loc.s) = {}
           /\ loc.subset_seed[Subset]
                  = cfg.base_seed + (IF loc.i < cfg.n_bootstrap THEN loc.i
                                     ELSE cfg.n_bootstrap - 1)
           /\ \A s \in 1..(loc.s - 1) : loc.subset_seed[cfg.subsets[s]] = cfg.base_seed
    /\ (pc = "failed" /\ loc.s <= Len(cfg.subsets)) => Resets(loc.s) = {}

\* the training of the second bootstrap iteration of the second subset raised
C29_Witness ==
    /\ FailedIn("train")
    /\ loc.s = 2
    /\ loc.i = 1
    /\ Resets(2) = {}
    /\ loc.subset_seed[cfg.subsets[2]] = cfg.base_seed + 1
    /\ loc.subset_seed[cfg.subsets[1]] = cfg.base_seed

----------------------------------------------------------------------------
(* SpecFrame: resolutions of hyperparameters on one results tree, before    *)
(* and after one save.  log holds the save once it is made.                 *)

\* a make_file_path that creates the folder whatever it is told
folders_after_make_file_path_default(ds, folder, check_folder_exists) == MakeDirs(ds, folder)

\* the folders after make_file_path(folder, filename, check_folder_exists)
folders_after_make_file_path(ds, folder, check_folder_exists) ==
    IF check_folder_exists THEN MakeDirs(ds, folder) ELSE ds

\* the folders after load_hyperparameters_*: each of its make_file_path calls
\* passes check_folder_exists=False, first for the folder of the fast file or
\* of the key file, then for the one of the default file
folders_after_load(ds, data, n_classes, n_attr, signal_strength, fast) ==
    LET base_folder == IF data = "shapes" THEN base_folder_shapes
                       ELSE get_cub_folder_path(HYPERPARAMETERS_FOLDER)
        folder_name == IF data = "shapes"
                       THEN get_full_shapes_folder_path(n_classes, n_attr, signal_strength,
                                                        HYPERPARAMETERS_FOLDER)
                       ELSE base_folder
    IN  IF fast
        THEN folders_after_make_file_path(ds, base_folder, FALSE)
        ELSE folders_after_make_file_path(
                 folders_after_make_file_path(ds, folder_name, FALSE), base_folder, FALSE)

\* the fast and default files all there or all missing
FrameChoices(ds) ==
    { c \in FileChoices(ds) : c[1] = c[2] /\ c[2] = c[3] /\ c[3] = c[4] }

InitFrame ==
    /\ dataset \in Datasets
    /\ \E c \in FrameChoices(dataset) : files = FileSystem(dataset, c)
    /\ dirs = FoldersOf(files)
    /\ call = NoCall
    /\ result = NoResult
    /\ log = << >>
    /\ cfg = None
    /\ pc = << >>
    /\ loc = << >>
    /\ weights = << >>
    /\ before = files

\* load_hyperparameters_shapes / load_hyperparameters_cub
Resolve ==
    /\ \E n_subset \in SubsetIds(dataset) \cup {None}, hard_bottleneck \in BOOLEAN,
          fast \in BOOLEAN, default \in BOOLEAN :
          /\ call' = [NoCall EXCEPT !.op = "load", !.n_classes = 10, !.n_attr = 5,
                         !.signal_strength = 98, !.n_subset = n_subset,
                         !.hard_bottleneck = hard_bottleneck,
                         !.fast = fast, !.default = default]
          /\ result' = IF dataset = "shapes"
                       THEN load_hyperparameters_shapes(files, 10, 5, 98, n_subset,
                                                        hard_bottleneck, fast, default)
                       ELSE load_hyperparameters_cub(files, n_subset, hard_bottleneck,
                                                     fast, default)
          /\ dirs' = IF dataset = "shapes"
                        /\ missing_configuration(10, 5, n_subset, fast, default)
                     THEN dirs
                     ELSE folders_after_load(dirs, dataset, 10, 5, 98, fast)
    /\ UNCHANGED << dataset, files, log, cfg, pc, loc, weights, before >>

\* save_hyperparameters_shapes / save_hyperparameters_cub
SaveKey ==
    /\ log = << >>
    /\ \E n_subset \in SubsetIds(dataset), hard_bottleneck \in BOOLEAN,
          model_type \in ModelStrings(dataset) :
          LET hyperparameters_dict == [hard |-> hard_bottleneck, learning_rate |-> 9]
              out == IF dataset = "shapes"
                     THEN save_hyperparameters_shapes(files, dirs, 10, 5, 98, n_subset,
                                                      hyperparameters_dict, model_type,
                                                      hard_bottleneck)
                     ELSE save_hyperparameters_cub(files, dirs, n_subset,
                                                   hyperparameters_dict, model_type,
                                                   hard_bottleneck)
          IN  /\ files' = out.files
              /\ dirs' = out.dirs
              /\ call' = [NoCall EXCEPT !.op = "save", !.n_classes = 10, !.n_attr = 5,
                             !.signal_strength = 98, !.n_subset = n_subset,
                             !.hard_bottleneck = hard_bottleneck,
                             !.model_type = model_type,
                             !.hyperparameters_dict = hyperparameters_dict]
              /\ result' = [NoResult EXCEPT !.status = out.status]
    /\ log' = Append(log, "save")
    /\ UNCHANGED << dataset, cfg, pc, loc, weights, before >>

NextFrame == Resolve \/ SaveKey

SpecFrame == InitFrame /\ [][NextFrame]_vars

\* C30: a resolution leaves every file and folder as it was, so a soft
\* resolution that follows a soft fallback returns the content of the soft
\* file, without the hard=True the fallback put in its result; a save leaves
\* every file but the one of its key as it was, the file of the other
\* hardness of the same subset among them.
C30_ReadOnlyAndKeyLocal ==
    [][ /\ call'.op = "load" => (files' = files /\ dirs' = dirs)
        /\ (call'.op = "load" /\ call.op = "load" /\ result.warnings = << "soft" >>
            /\ result.status = "ok" /\ call'.n_subset = call.n_subset
            /\ ~call'.hard_bottleneck /\ ~call'.fast /\ ~call'.default) =>
               /\ result'.status = "ok"
               /\ result'.value = yaml_safe_load(files[KeyPath(dataset, call.n_subset, FALSE)])
               /\ result'.value # result.value
        /\ call'.op = "save" =>
               /\ \A path \in (DOMAIN files \cup DOMAIN files')
                                \ {KeyPath(dataset, call'.n_subset, call'.hard_bottleneck)} :
                      /\ path \in DOMAIN files /\ path \in DOMAIN files'
                      /\ files'[path] = files[path]
               /\ KeyPath(dataset, call'.n_subset, call'.hard_bottleneck) \in DOMAIN files'
      ]_vars

\* the soft file of a subset was saved to while its hard file holds what it
\* held at the start, and a fast resolution that followed found no fast file
C30_Witness ==
    /\ dataset = "shapes"
    /\ call.op = "load"
    /\ call.fast
    /\ result.status = "FileNotFoundError"
    /\ << "results", "hyperparameters", "shapes" >> \in dirs
    /\ Len(log) = 1
    /\ KeyPath("shapes", 1, TRUE) \in DOMAIN before
    /\ files[KeyPath("shapes", 1, TRUE)] = before[KeyPath("shapes", 1, TRUE)]
    /\ KeyPath("shapes", 1, FALSE) \in DOMAIN before
    /\ files[KeyPath("shapes", 1, FALSE)] # before[KeyPath("shapes", 1, FALSE)]

====
